---- MODULE Spec2Model ----
(***************************************************************************)
(* The audio delay card of cjsekl/workshop-cards (class AudioDelay): the   *)
(* state of the object, and its one operation, ProcessSample, which the    *)
(* card's scheduler calls once per audio sample.                           *)
(*                                                                         *)
(* Numbers.  TLC's integers are 32 bits wide, so                          *)
(*   - the uint32_t counters (sampleCounter, lastTapTime, tapTimeout) are  *)
(*     kept as two 16-bit halves [h, l] with the value h * 65536 + l, and  *)
(*     added and subtracted modulo 2^32 half by half;                      *)
(*   - the two int64_t products of the code that exceed 32 bits            *)
(*     (smoothedDelay * 255 and smoothedDelay * pitchMod) are computed     *)
(*     from the same operands split so that no intermediate exceeds 2^31;  *)
(*     the results are the code's, bit for bit.                            *)
(*   x >> k on a signed value is the arithmetic shift of the target        *)
(*   (floor division by 2^k), which is what \div computes.                 *)
(*                                                                         *)
(* ledCounter (the blink phase of LED 0) is left out: nothing else reads   *)
(* it.                                                                     *)
(***************************************************************************)
EXTENDS Integers, Sequences, FiniteSets, TLC

(***************************************************************************)
(* Program constants                                                       *)
(***************************************************************************)
MAX_DELAY_SIZE == 96000
MIN_DELAY == 100
MAX_DELAY == 95000
HYSTERESIS_THRESHOLD == 8
MIN_INPUT_GAIN == 205
softKnee == 600
TAP_MIN_INTERVAL == 2400
TAP_MAX_INTERVAL == 144000
TAP_TIMEOUT_SAMPLES == 240000
CLEAN == 0
SATURATION == 1
SHIMMER == 2
LOFI == 3

\* the resonator card (class ResonatingStrings)
NUM_MODES == 9
FIFTH == 1

(***************************************************************************)
(* Fixed-width arithmetic                                                  *)
(***************************************************************************)
\* x >> k for a signed x
Shr(x, k) == x \div (2 ^ k)

\* a uint32_t from a non-negative value below 2^31
U32(n) == [h |-> n \div 65536, l |-> n % 65536]

\* a + b modulo 2^32
AddU32(a, b) ==
  LET l == a.l + b.l
      h == a.h + b.h + (l \div 65536)
  IN  [h |-> h % 65536, l |-> l % 65536]

\* a - b modulo 2^32
SubU32(a, b) ==
  LET l == a.l - b.l
      h == a.h - b.h - (IF l < 0 THEN 1 ELSE 0)
  IN  [h |-> h % 65536, l |-> l % 65536]

\* (int32_t)a >= 0
NonNegS32(a) == a.h < 32768

\* the value of a uint32_t that is below 2^31
IntOf(a) == a.h * 65536 + a.l

\* a >= n and a <= n for a uint32_t a and a constant 0 <= n < 2^31
GeU32(a, n) == IF a.h >= 32768 THEN TRUE ELSE IntOf(a) >= n
LeU32(a, n) == IF a.h >= 32768 THEN FALSE ELSE IntOf(a) <= n

\* a < b for two uint32_t
LtU32(a, b) == a.h < b.h \/ (a.h = b.h /\ a.l < b.l)

\* C's a % b for b > 0: the remainder takes the sign of a
CMod(a, b) == IF a >= 0 THEN a % b ELSE -((-a) % b)

Abs(x) == IF x < 0 THEN -x ELSE x

(***************************************************************************)
(* The delay buffer: int16_t delayBuffer[MAX_DELAY_SIZE], zero at startup  *)
(* (the object has static storage).  It is kept as the function of its     *)
(* non-zero slots; every other slot holds 0.                               *)
(***************************************************************************)
BufRead(buf, i) == IF i \in DOMAIN buf THEN buf[i] ELSE 0

BufWrite(buf, i, v) ==
  IF v = 0
  THEN [j \in (DOMAIN buf) \ {i} |-> buf[j]]
  ELSE [j \in (DOMAIN buf) \cup {i} |-> IF j = i THEN v ELSE buf[j]]

(***************************************************************************)
(* Private helpers of AudioDelay                                           *)
(***************************************************************************)
\* highpass(): the new hpfState and the returned value
highpass(input, state) ==
  LET st == state + Shr((input - state) * 200 + 32768, 16)
  IN  [state |-> st, out |-> input - st]

\* a clamp that lets everything through: a departure from the code, against
\* which the range of the samples is tried
clipNone(a) == a

\* shimmerHighpass(): the new shimmerHpfState and the returned value
shimmerHighpass(input, state) ==
  LET st == state + Shr((input - state) * 1200 + 32768, 16)
  IN  [state |-> st, out |-> input - st]

clip(a) == IF a < -2047 THEN -2047 ELSE IF a > 2047 THEN 2047 ELSE a

\* a saturation whose accumulator has no cap
warmSaturateUncapped(input, accum) ==
  LET absInput == IF input < 0 THEN -input ELSE input
      acc == Shr(252 * accum + 128, 8) + Shr(absInput + 128, 8)
      drive == 2700 + Shr(acc + 8, 4)
      driven == Shr(input * drive + 1024, 11)
      excess == (IF driven >= 0 THEN driven ELSE -driven) - 600
      o == 600 + Shr(excess + 4, 3) + Shr(excess + 16, 5)
      sat == IF excess < 0 THEN driven
             ELSE IF driven >= 0 THEN (IF o > 2047 THEN 2047 ELSE o)
             ELSE (IF o > 2047 THEN -2047 ELSE -o)
  IN  [accum |-> acc, drive |-> drive, out |-> Shr(sat * 1434 + 1024, 11)]

\* warmSaturate(): the new saturationAccum, the drive and the returned value
warmSaturate(input, accum) ==
  LET absInput == Abs(input)
      acc0 == Shr(252 * accum + 128, 8) + Shr(absInput + 128, 8)
      acc == IF acc0 > 400 THEN 400 ELSE acc0
      drive == 2700 + Shr(acc + 8, 4)
      driven == Shr(input * drive + 1024, 11)
      posInput == -driven
      sat == IF driven >= 0
             THEN IF driven < softKnee
                  THEN driven
                  ELSE LET excess == driven - softKnee
                           o == softKnee + Shr(excess + 4, 3) + Shr(excess + 16, 5)
                       IN  IF o > 2047 THEN 2047 ELSE o
             ELSE IF posInput < softKnee
                  THEN driven
                  ELSE LET excess == posInput - softKnee
                           o == -(softKnee + Shr(excess + 4, 3) + Shr(excess + 16, 5))
                       IN  IF o < -2047 THEN -2047 ELSE o
  IN  [accum |-> acc, drive |-> drive, out |-> Shr(sat * 1434 + 1024, 11)]

(***************************************************************************)
(* Departures from the code, against which the properties below are tried: *)
(* each must break the property that speaks of the step it replaces.       *)
(***************************************************************************)
\* a tap window without its lower end
TapInWindowOpen(t) ==
  GeU32(t, TAP_MIN_INTERVAL + 1) /\ LeU32(t, TAP_MAX_INTERVAL)

\* a tap window one sample too long
TapInWindowWide(t) ==
  GeU32(t, TAP_MIN_INTERVAL) /\ LeU32(t, TAP_MAX_INTERVAL + 1)

\* a deadline one sample late
TapDeadlineLate(now) == AddU32(now, U32(TAP_TIMEOUT_SAMPLES + 1))

\* a target that follows the knob whether or not tap tempo is active
TargetDelayKnob(active, interval, held) ==
  MIN_DELAY + (held * (MAX_DELAY - MIN_DELAY)) \div 4095

\* a write that the freeze gate does not stop
WriteBufferAlways(buf, freezeActive, writeIdx, v) == BufWrite(buf, writeIdx, v)

\* a capture on every cycle, not only on the freeze edge
CaptureAlways(freezeEdge, current, frozen) == current

\* a frozen cursor whose loop is frozenDelayTimeL long
FrozenCursorShort(writeIdx, frozenPos, frozenL) ==
  LET adv0 == writeIdx - frozenPos
      advancedSamples == IF adv0 < 0 THEN adv0 + MAX_DELAY_SIZE ELSE adv0
      e == frozenPos + CMod(advancedSamples, frozenL)
  IN  IF e >= MAX_DELAY_SIZE THEN e - MAX_DELAY_SIZE ELSE e

\* a read index that is not wrapped
ReadIndexRaw(effective, delay, k) == effective - delay - k

\* a mode that advances on every cycle with the switch down
NextModeHeld(mode, switchDown, lastDown) ==
  IF switchDown THEN (mode + 1) % 4 ELSE mode

\* an input gain without its floor
InputGainBare(fb) == 4095 - Shr(fb * fb + 2048, 12)

\* a feedback gain divided by 4095, without rounding
FeedbackGainExact(fb) == 4095 - ((4095 - fb) * (4095 - fb)) \div 4095

\* a dry/wet mix that is cut off, not rounded
MixOutputCut(audioIn, delayed, mixKnob) ==
  LET o == Shr(audioIn * (4095 - mixKnob) + delayed * mixKnob, 12)
  IN  IF o < -2047 THEN -2047 ELSE IF o > 2047 THEN 2047 ELSE o

\* a read of the nearer sample alone
InterpolateNearest(sample1, sample2, fraction) == sample1

\* a timeout check that compares the two counters as unsigned numbers
TimeoutReachedUnsigned(now, deadline) ==
  now.h > deadline.h \/ (now.h = deadline.h /\ now.l >= deadline.l)

\* a hysteresis that LOFI mode does not bypass
HeldControlAlways(mode, combinedControl, lastRaw) ==
  IF (IF combinedControl < lastRaw THEN lastRaw - combinedControl
      ELSE combinedControl - lastRaw) >= HYSTERESIS_THRESHOLD
  THEN combinedControl
  ELSE lastRaw

\* a right channel that is never spread
StereoOffsetMono(mode, d) == d

\* a control that is clamped at its upper end only
CombineControlHigh(knob, cv) ==
  IF knob + cv > 4095 THEN 4095 ELSE knob + cv

(***************************************************************************)
(* Steps of ProcessSample that claims name on their own                    *)
(***************************************************************************)
\* mode cycling: currentMode after the switch has been read
NextMode(mode, switchDown, lastDown) ==
  IF switchDown /\ ~lastDown THEN (mode + 1) % 4 ELSE mode

\* the tap is taken: timeSinceLastTap >= 2400 && timeSinceLastTap <= 144000
TapInWindow(t) == GeU32(t, TAP_MIN_INTERVAL) /\ LeU32(t, TAP_MAX_INTERVAL)

\* tapTimeout = sampleCounter + 240000
TapDeadline(now) == AddU32(now, U32(TAP_TIMEOUT_SAMPLES))

\* (int32_t)(sampleCounter - tapTimeout) >= 0
TimeoutReached(now, deadline) == NonNegS32(SubU32(now, deadline))

\* delayKnob + cv, clamped to 0..4095
CombineControl(knob, cv) ==
  LET c == knob + cv
  IN  IF c > 4095 THEN 4095 ELSE IF c < 0 THEN 0 ELSE c

\* the hysteresis: the held control value after the cycle
HeldControl(mode, combinedControl, lastRaw) ==
  IF mode # LOFI
  THEN IF Abs(combinedControl - lastRaw) >= HYSTERESIS_THRESHOLD
       THEN combinedControl
       ELSE lastRaw
  ELSE combinedControl

\* targetDelay
TargetDelay(active, interval, held) ==
  IF active
  THEN IF interval < MIN_DELAY THEN MIN_DELAY
       ELSE IF interval > MAX_DELAY THEN MAX_DELAY ELSE interval
  ELSE MIN_DELAY + (held * (MAX_DELAY - MIN_DELAY)) \div 4095

\* a smoothing that rounds every step upward
SmoothCeil(s, targetFine) == s + Shr(targetFine + 255 - s, 8)
\* smoothedDelay = (smoothedDelay * 255 + targetDelayFine + 128) >> 8, with
\* smoothedDelay * 255 written as smoothedDelay * 256 - smoothedDelay
Smooth(s, targetFine) == s + Shr(targetFine + 128 - s, 8)

\* (temp + (temp >= 0 ? 32768 : -32768)) >> 16 for temp = s * (-21782),
\* with s split into its halves a * 65536 + b
PitchModulation(s) ==
  LET a == s \div 65536
      b == s % 65536
  IN  IF s <= 0
      THEN (-a) * 21782 + Shr((-b) * 21782 + 32768, 16)
      ELSE (-a) * 21782 + Shr((-b) * 21782 - 32768, 16)

ClampFine(d) ==
  IF d < MIN_DELAY * 128 THEN MIN_DELAY * 128
  ELSE IF d > MAX_DELAY * 128 THEN MAX_DELAY * 128 ELSE d

\* modulatedDelayRight before its clamp
StereoOffset(mode, d) ==
  IF mode = CLEAN \/ mode = LOFI THEN d
  ELSE IF mode = SATURATION THEN (d * 101) \div 100
  ELSE (d * 110) \div 100

\* frozenWritePos, frozenDelayTimeL, frozenDelayTimeR: assigned the current
\* value on the freeze edge, else left as they are
Capture(freezeEdge, current, frozen) == IF freezeEdge THEN current ELSE frozen

\* effectiveWriteIndex while the freeze gate is high
FrozenCursor(writeIdx, frozenPos, frozenL) ==
  LET adv0 == writeIdx - frozenPos
      advancedSamples == IF adv0 < 0 THEN adv0 + MAX_DELAY_SIZE ELSE adv0
      e == frozenPos + CMod(advancedSamples, frozenL + 1)
  IN  IF e >= MAX_DELAY_SIZE THEN e - MAX_DELAY_SIZE ELSE e

\* a read index: effectiveWriteIndex - delay - k, wrapped
ReadIndex(effective, delay, k) ==
  LET r == effective - delay - k
      r1 == IF r < 0 THEN r + MAX_DELAY_SIZE ELSE r
  IN  CMod(r1, MAX_DELAY_SIZE)

\* the fraction used to interpolate: modulatedDelay & 0x7F
Fraction(modulated) == modulated % 128

\* the linear interpolation of the two samples read
Interpolate(sample1, sample2, fraction) ==
  Shr(sample2 * fraction + sample1 * (128 - fraction) + 64, 7)

InputGain(fb) ==
  LET g == 4095 - Shr(fb * fb + 2048, 12)
  IN  IF g < MIN_INPUT_GAIN THEN MIN_INPUT_GAIN ELSE g

FeedbackGain(fb) == 4095 - Shr((4095 - fb) * (4095 - fb) + 2048, 12)

\* the dynamic gain envelope of SATURATION mode
DynamicGain(accum) ==
  IF accum < 150
  THEN 1740 + accum * 4
  ELSE LET g == 2340 - Shr((accum - 150) * 5 + 1, 1)
       IN  IF g < 1126 THEN 1126 ELSE g

\* the dry/wet mix of one channel
MixOutput(audioIn, delayed, mixKnob) ==
  clip(Shr(audioIn * (4095 - mixKnob) + delayed * mixKnob + 2048, 12))

\* the buffer after the write of the cycle
WriteBuffer(buf, freezeActive, writeIdx, v) ==
  IF ~freezeActive THEN BufWrite(buf, writeIdx, v) ELSE buf

(***************************************************************************)
(* The state: the fields of AudioDelay, then what the environment fed the  *)
(* last cycle (inp), the local values and outputs of the last cycle (loc), *)
(* and the bookkeeping of the exploration.                                 *)
(***************************************************************************)
VARIABLES
  delayBuffer, writeIndex, smoothedDelay, lastRawControl,
  currentMode, lastSwitchDown,
  hpfState, shimmerHpfState, saturationAccum,
  lastTapTime, tapInterval, tapTimeout, tapTempoActive, lastPulse1, sampleCounter,
  lastFreezeActive, frozenWritePos, frozenDelayTimeL, frozenDelayTimeR,
  inp,        \* the inputs read by the last cycle
  loc,        \* locals and outputs of the last cycle
  freezeAge,  \* cycles the gate has been high in a row, the edge cycle being 0
  atEdge,     \* the last cycle in which the freeze gate rose: the buffer it
              \* found and its <<delayedSampleLeft, delayedSampleRight>>
  cycles,     \* single cycles taken so far
  holds,      \* held stretches taken so far
  changes,    \* cycles so far whose delay control differed from the cycle before
  tapLog,     \* the taps seen on Pulse In 1 so far
  strings,    \* the resonator card: its fields currentMode and lastSwitchDown,
              \* the switch as its last cycle read it, and the modes it has
              \* been in, one per switch transition
  past,       \* the audio so far: the non-zero samples stored, by the sample
              \* count of the cycle that stored them, and the sample counts of
              \* the cycles in which the left delayed sample left 0
  old         \* the object and tapLog as the last cycle found them, and the
              \* inputs of the cycle before it

fields == <<delayBuffer, writeIndex, smoothedDelay, lastRawControl,
            currentMode, lastSwitchDown, hpfState, shimmerHpfState, saturationAccum,
            lastTapTime, tapInterval, tapTimeout, tapTempoActive, lastPulse1,
            sampleCounter, lastFreezeActive, frozenWritePos, frozenDelayTimeL,
            frozenDelayTimeR>>

vars == <<fields, inp, loc, freezeAge, atEdge, cycles, holds, changes, tapLog,
          strings, past, old>>

\* the object as one record
State ==
  [delayBuffer |-> delayBuffer, writeIndex |-> writeIndex,
   smoothedDelay |-> smoothedDelay, lastRawControl |-> lastRawControl,
   currentMode |-> currentMode, lastSwitchDown |-> lastSwitchDown,
   hpfState |-> hpfState, shimmerHpfState |-> shimmerHpfState,
   saturationAccum |-> saturationAccum,
   lastTapTime |-> lastTapTime, tapInterval |-> tapInterval,
   tapTimeout |-> tapTimeout, tapTempoActive |-> tapTempoActive,
   lastPulse1 |-> lastPulse1, sampleCounter |-> sampleCounter,
   lastFreezeActive |-> lastFreezeActive, frozenWritePos |-> frozenWritePos,
   frozenDelayTimeL |-> frozenDelayTimeL, frozenDelayTimeR |-> frozenDelayTimeR]

(***************************************************************************)
(* ProcessSample on the object s with the inputs in, in the order of the   *)
(* code.  Each part adds the locals it computes to the record of the ones  *)
(* before it; Bind hands a part's record on as a value, so that it is      *)
(* computed once.                                                          *)
(***************************************************************************)
Bind(v, F(_)) == CHOOSE r \in {F(x) : x \in {v}} : TRUE

\* a tap part that tests the deadline first and takes no tap in the cycle in
\* which it is reached
TapPartExpiryFirst(s, in) ==
  LET now == s.sampleCounter
      tapEdge == in.pulse1 /\ ~s.lastPulse1
      timeSinceLastTap == SubU32(now, s.lastTapTime)
      expired == s.tapTempoActive /\ TimeoutReached(now, s.tapTimeout)
      tapAccepted == tapEdge /\ TapInWindow(timeSinceLastTap) /\ ~expired
      deadline == IF tapAccepted THEN TapDeadline(now) ELSE s.tapTimeout
      active0 == IF tapAccepted THEN TRUE ELSE s.tapTempoActive
      timedOut == active0 /\ TimeoutReached(now, deadline)
  IN  [audioIn |-> Shr(in.audioIn1 + in.audioIn2 + 1, 1),
       mode |-> NextMode(s.currentMode, in.switchDown, s.lastSwitchDown),
       now |-> now,
       tapEdge |-> tapEdge,
       timeSinceLastTap |-> timeSinceLastTap,
       tapAccepted |-> tapAccepted,
       interval |-> IF tapAccepted THEN IntOf(timeSinceLastTap) ELSE s.tapInterval,
       deadline |-> deadline,
       tapTime |-> IF tapEdge THEN now ELSE s.lastTapTime,
       timedOut |-> timedOut,
       active |-> IF timedOut THEN FALSE ELSE active0]

\* input mix, mode cycling, tap tempo and its timeout
TapPart(s, in) ==
  LET now == s.sampleCounter
      tapEdge == in.pulse1 /\ ~s.lastPulse1
      timeSinceLastTap == SubU32(now, s.lastTapTime)
      tapAccepted == tapEdge /\ TapInWindow(timeSinceLastTap)
      deadline == IF tapAccepted THEN TapDeadline(now) ELSE s.tapTimeout
      active0 == IF tapAccepted THEN TRUE ELSE s.tapTempoActive
      timedOut == active0 /\ TimeoutReached(now, deadline)
  IN  [audioIn |-> Shr(in.audioIn1 + in.audioIn2 + 1, 1),
       mode |-> NextMode(s.currentMode, in.switchDown, s.lastSwitchDown),
       now |-> now,
       tapEdge |-> tapEdge,
       timeSinceLastTap |-> timeSinceLastTap,
       tapAccepted |-> tapAccepted,
       interval |-> IF tapAccepted THEN IntOf(timeSinceLastTap) ELSE s.tapInterval,
       deadline |-> deadline,
       tapTime |-> IF tapEdge THEN now ELSE s.lastTapTime,
       timedOut |-> timedOut,
       active |-> IF timedOut THEN FALSE ELSE active0]

\* delay control: knob + CV, hysteresis, target, smoothing
ControlPart(s, in, a) ==
  LET combined == CombineControl(in.knobX, in.cv1)
      held == HeldControl(a.mode, combined, s.lastRawControl)
      targetDelay == TargetDelay(a.active, a.interval, held)
  IN  a @@ [combinedControl |-> combined,
            held |-> held,
            targetDelay |-> targetDelay,
            smoothed |-> Smooth(s.smoothedDelay, targetDelay * 128)]

\* shimmer pitch modulation and the left delay
ModulationPart(a) ==
  LET pitchModulation == IF a.mode = SHIMMER THEN PitchModulation(a.smoothed) ELSE 0
  IN  a @@ [pitchModulation |-> pitchModulation,
            modulatedDelay |-> ClampFine(a.smoothed + pitchModulation)]

\* the right delay
StereoPart(a) ==
  a @@ [modulatedDelayRight |-> ClampFine(StereoOffset(a.mode, a.modulatedDelay))]

\* freeze detection and the delays and cursor the read uses
FreezePart(s, in, a) ==
  LET freezeActive == in.pulse2
      freezeEdge == freezeActive /\ ~s.lastFreezeActive
      fPos == Capture(freezeEdge, s.writeIndex, s.frozenWritePos)
      fL == Capture(freezeEdge, Shr(a.modulatedDelay, 7), s.frozenDelayTimeL)
      fR == Capture(freezeEdge, Shr(a.modulatedDelayRight, 7), s.frozenDelayTimeR)
  IN  a @@ [freezeActive |-> freezeActive,
            freezeEdge |-> freezeEdge,
            frozenWritePos |-> fPos,
            frozenDelayTimeL |-> fL,
            frozenDelayTimeR |-> fR,
            delayInSamplesLeft |-> IF freezeActive THEN fL
                                   ELSE Shr(a.modulatedDelay, 7),
            delayInSamplesRight |-> IF freezeActive THEN fR
                                    ELSE Shr(a.modulatedDelayRight, 7),
            writePos |-> s.writeIndex,
            effectiveWriteIndex |-> IF freezeActive
                                    THEN FrozenCursor(s.writeIndex, fPos, fL)
                                    ELSE s.writeIndex]

\* the read indices of both channels
IndexPart(a) ==
  a @@ [fractionLeft |-> Fraction(a.modulatedDelay),
        readIndex1L |-> ReadIndex(a.effectiveWriteIndex, a.delayInSamplesLeft, 1),
        readIndex2L |-> ReadIndex(a.effectiveWriteIndex, a.delayInSamplesLeft, 2),
        fractionRight |-> Fraction(a.modulatedDelayRight),
        readIndex1R |-> ReadIndex(a.effectiveWriteIndex, a.delayInSamplesRight, 1),
        readIndex2R |-> ReadIndex(a.effectiveWriteIndex, a.delayInSamplesRight, 2)]

\* the delayed samples of both channels
ReadPart(s, a) ==
  a @@ [delayedSampleLeft |-> Interpolate(BufRead(s.delayBuffer, a.readIndex1L),
                                          BufRead(s.delayBuffer, a.readIndex2L),
                                          a.fractionLeft),
        delayedSampleRight |-> Interpolate(BufRead(s.delayBuffer, a.readIndex1R),
                                           BufRead(s.delayBuffer, a.readIndex2R),
                                           a.fractionRight)]

\* a feedback signal rounded upward
FeedbackPartCeil(in, a) ==
  LET combinedFeedback == CombineControl(in.knobY, in.cv2)
      feedbackGain == FeedbackGain(combinedFeedback)
  IN  a @@ [combinedFeedback |-> combinedFeedback,
            inputGain |-> InputGain(combinedFeedback),
            feedbackGain |-> feedbackGain,
            feedbackIn |-> Shr(a.delayedSampleLeft * feedbackGain + 4095, 12)]

\* feedback amount, the crossfade gains and the feedback signal
FeedbackPart(in, a) ==
  LET combinedFeedback == CombineControl(in.knobY, in.cv2)
      feedbackGain == FeedbackGain(combinedFeedback)
  IN  a @@ [combinedFeedback |-> combinedFeedback,
            inputGain |-> InputGain(combinedFeedback),
            feedbackGain |-> feedbackGain,
            feedbackIn |-> Shr(a.delayedSampleLeft * feedbackGain + 2048, 12)]

\* mode effects that clear the state of the modes that are not active
EffectPartReset(s, a) ==
  IF a.mode = SATURATION
  THEN Bind(warmSaturate(a.feedbackIn, s.saturationAccum),
            LAMBDA w :
              a @@ [saturationAccum |-> w.accum,
                    shimmerHpfState |-> 0,
                    feedbackSignal |->
                      Shr(w.out * DynamicGain(w.accum) + 1024, 11)])
  ELSE IF a.mode = SHIMMER
  THEN Bind(shimmerHighpass(a.feedbackIn, s.shimmerHpfState),
            LAMBDA w :
              a @@ [saturationAccum |-> 0,
                    shimmerHpfState |-> w.state,
                    feedbackSignal |-> w.out])
  ELSE a @@ [saturationAccum |-> 0,
             shimmerHpfState |-> 0,
             feedbackSignal |-> a.feedbackIn]

\* the mode's effect on the feedback signal
EffectPart(s, a) ==
  IF a.mode = SATURATION
  THEN Bind(warmSaturate(a.feedbackIn, s.saturationAccum),
            LAMBDA w :
              a @@ [saturationAccum |-> w.accum,
                    shimmerHpfState |-> s.shimmerHpfState,
                    feedbackSignal |->
                      Shr(w.out * DynamicGain(w.accum) + 1024, 11)])
  ELSE IF a.mode = SHIMMER
  THEN Bind(shimmerHighpass(a.feedbackIn, s.shimmerHpfState),
            LAMBDA w :
              a @@ [saturationAccum |-> s.saturationAccum,
                    shimmerHpfState |-> w.state,
                    feedbackSignal |-> w.out])
  ELSE a @@ [saturationAccum |-> s.saturationAccum,
             shimmerHpfState |-> s.shimmerHpfState,
             feedbackSignal |-> a.feedbackIn]

\* input + feedback, the DC blocker and the clamp
MixPart(s, a) ==
  LET mixedSignal == Shr(a.audioIn * a.inputGain + 2048, 12) + a.feedbackSignal
  IN  Bind(highpass(mixedSignal, s.hpfState),
           LAMBDA w :
             a @@ [mixedSignal |-> mixedSignal,
                   hpfState |-> w.state,
                   filteredSignal |-> clip(w.out)])

\* outputs whose feedback LED is on from 2048 on
OutputPartHalf(in, a) ==
  a @@ [outputLeft |-> MixOutput(a.audioIn, a.delayedSampleLeft, in.knobMain),
        outputRight |-> MixOutput(a.audioIn, a.delayedSampleRight, in.knobMain),
        led1 |-> a.combinedFeedback >= 2048,
        led2 |-> a.mode = CLEAN, led3 |-> a.mode = SATURATION,
        led4 |-> a.mode = SHIMMER, led5 |-> a.mode = LOFI]

\* the dry/wet outputs and the LEDs
OutputPart(in, a) ==
  a @@ [outputLeft |-> MixOutput(a.audioIn, a.delayedSampleLeft, in.knobMain),
        outputRight |-> MixOutput(a.audioIn, a.delayedSampleRight, in.knobMain),
        led1 |-> a.combinedFeedback > 2048,
        led2 |-> a.mode = CLEAN, led3 |-> a.mode = SATURATION,
        led4 |-> a.mode = SHIMMER, led5 |-> a.mode = LOFI]

\* the locals and outputs of the call
Locals(s, in) ==
  Bind(TapPart(s, in), LAMBDA a :
  Bind(ControlPart(s, in, a), LAMBDA b :
  Bind(ModulationPart(b), LAMBDA c :
  Bind(StereoPart(c), LAMBDA d :
  Bind(FreezePart(s, in, d), LAMBDA e :
  Bind(IndexPart(e), LAMBDA f :
  Bind(ReadPart(s, f), LAMBDA g :
  Bind(FeedbackPart(in, g), LAMBDA h :
  Bind(EffectPart(s, h), LAMBDA i :
  Bind(MixPart(s, i), LAMBDA j : OutputPart(in, j)))))))))))

\* fields whose write cursor stands still while the freeze gate is high
FieldsStalled(s, in, x) ==
  [delayBuffer |-> WriteBuffer(s.delayBuffer, x.freezeActive, s.writeIndex,
                               x.filteredSignal),
   writeIndex |-> IF x.freezeActive THEN s.writeIndex
                  ELSE (s.writeIndex + 1) % MAX_DELAY_SIZE,
   smoothedDelay |-> x.smoothed,
   lastRawControl |-> x.held,
   currentMode |-> x.mode,
   lastSwitchDown |-> in.switchDown,
   hpfState |-> x.hpfState,
   shimmerHpfState |-> x.shimmerHpfState,
   saturationAccum |-> x.saturationAccum,
   lastTapTime |-> x.tapTime,
   tapInterval |-> x.interval,
   tapTimeout |-> x.deadline,
   tapTempoActive |-> x.active,
   lastPulse1 |-> in.pulse1,
   sampleCounter |-> AddU32(s.sampleCounter, U32(1)),
   lastFreezeActive |-> x.freezeActive,
   frozenWritePos |-> x.frozenWritePos,
   frozenDelayTimeL |-> x.frozenDelayTimeL,
   frozenDelayTimeR |-> x.frozenDelayTimeR,
   loc |-> x]

\* the fields after the call, with its locals as loc
Fields(s, in, x) ==
  [delayBuffer |-> WriteBuffer(s.delayBuffer, x.freezeActive, s.writeIndex,
                               x.filteredSignal),
   writeIndex |-> (s.writeIndex + 1) % MAX_DELAY_SIZE,
   smoothedDelay |-> x.smoothed,
   lastRawControl |-> x.held,
   currentMode |-> x.mode,
   lastSwitchDown |-> in.switchDown,
   hpfState |-> x.hpfState,
   shimmerHpfState |-> x.shimmerHpfState,
   saturationAccum |-> x.saturationAccum,
   lastTapTime |-> x.tapTime,
   tapInterval |-> x.interval,
   tapTimeout |-> x.deadline,
   tapTempoActive |-> x.active,
   lastPulse1 |-> in.pulse1,
   sampleCounter |-> AddU32(s.sampleCounter, U32(1)),
   lastFreezeActive |-> x.freezeActive,
   frozenWritePos |-> x.frozenWritePos,
   frozenDelayTimeL |-> x.frozenDelayTimeL,
   frozenDelayTimeR |-> x.frozenDelayTimeR,
   loc |-> x]

Cycle(s, in) == Bind(Locals(s, in), LAMBDA x : Fields(s, in, x))

(***************************************************************************)
(* AudioDelay::AudioDelay(): the object after construction.                *)
(***************************************************************************)
NoInput ==
  [audioIn1 |-> 0, audioIn2 |-> 0, switchDown |-> FALSE, pulse1 |-> FALSE,
   knobX |-> 0, cv1 |-> 0, pulse2 |-> FALSE, knobY |-> 0, cv2 |-> 0,
   knobMain |-> 0]

Constructed ==
  [delayBuffer |-> <<>>, writeIndex |-> 0, smoothedDelay |-> 0,
   lastRawControl |-> 0, currentMode |-> CLEAN, lastSwitchDown |-> TRUE,
   hpfState |-> 0, shimmerHpfState |-> 0, saturationAccum |-> 0,
   lastTapTime |-> U32(0), tapInterval |-> 24000, tapTimeout |-> U32(0),
   tapTempoActive |-> FALSE, lastPulse1 |-> FALSE, sampleCounter |-> U32(0),
   lastFreezeActive |-> FALSE, frozenWritePos |-> 0, frozenDelayTimeL |-> 0,
   frozenDelayTimeR |-> 0]

\* No tap yet.  edge: the sample count of the last rising edge of Pulse In 1
\* (the input high in a cycle and low in the cycle before); pair: the last
\* cycle had a rising edge and there was one before it; accept: the sample
\* count of the last tap the code took.
\* wraps: the times sampleCounter has passed 2^32 and begun again at 0;
\* edgeEra: the times it had done so in the cycle of the last rising edge.
NoTaps ==
  [edge |-> [seen |-> FALSE, at |-> U32(0)],
   pair |-> FALSE,
   accept |-> [seen |-> FALSE, at |-> U32(0)],
   wraps |-> 0,
   edgeEra |-> 0]

\* the times the sample counter had begun again at 0 in the last cycle, whose
\* sample count is one less than the counter, which has begun again wraps times
Era(wraps, counter) == IF counter = U32(0) THEN wraps - 1 ELSE wraps

\* nothing stored and nothing heard yet
NoAudio == [wrote |-> <<>>, echoes |-> <<>>]

\* ResonatingStrings::ResonatingStrings(): the resonator card after
\* construction, with no cycle run
Strung ==
  [currentMode |-> FIFTH, lastSwitchDown |-> TRUE,
   ran |-> FALSE, switchDown |-> FALSE, modes |-> <<FIFTH>>]

Init ==
  /\ delayBuffer = Constructed.delayBuffer
  /\ writeIndex = Constructed.writeIndex
  /\ smoothedDelay = Constructed.smoothedDelay
  /\ lastRawControl = Constructed.lastRawControl
  /\ currentMode = Constructed.currentMode
  /\ lastSwitchDown = Constructed.lastSwitchDown
  /\ hpfState = Constructed.hpfState
  /\ shimmerHpfState = Constructed.shimmerHpfState
  /\ saturationAccum = Constructed.saturationAccum
  /\ lastTapTime = Constructed.lastTapTime
  /\ tapInterval = Constructed.tapInterval
  /\ tapTimeout = Constructed.tapTimeout
  /\ tapTempoActive = Constructed.tapTempoActive
  /\ lastPulse1 = Constructed.lastPulse1
  /\ sampleCounter = Constructed.sampleCounter
  /\ lastFreezeActive = Constructed.lastFreezeActive
  /\ frozenWritePos = Constructed.frozenWritePos
  /\ frozenDelayTimeL = Constructed.frozenDelayTimeL
  /\ frozenDelayTimeR = Constructed.frozenDelayTimeR
  /\ inp = NoInput
  /\ loc = Cycle(Constructed, NoInput).loc
  /\ freezeAge = 0
  /\ atEdge = [buffer |-> <<>>, wet |-> <<0, 0>>]
  /\ cycles = 0
  /\ holds = 0
  /\ changes = 0
  /\ tapLog = NoTaps
  /\ past = NoAudio
  /\ strings = Strung
  /\ old = [obj |-> Constructed, taps |-> NoTaps, inp |-> NoInput]

(***************************************************************************)
(* One call of ProcessSample, and a stretch of calls with the inputs held. *)
(***************************************************************************)
\* the delay control: knob X and CV 1
Controls(in) == <<in.knobX, in.cv1>>

\* the object becomes r, the result of the last of k cycles fed in, which
\* found the object as s; was is what the cycle before that one was fed
Apply(s, r, in, k, was) ==
  /\ delayBuffer' = r.delayBuffer
  /\ writeIndex' = r.writeIndex
  /\ smoothedDelay' = r.smoothedDelay
  /\ lastRawControl' = r.lastRawControl
  /\ currentMode' = r.currentMode
  /\ lastSwitchDown' = r.lastSwitchDown
  /\ hpfState' = r.hpfState
  /\ shimmerHpfState' = r.shimmerHpfState
  /\ saturationAccum' = r.saturationAccum
  /\ lastTapTime' = r.lastTapTime
  /\ tapInterval' = r.tapInterval
  /\ tapTimeout' = r.tapTimeout
  /\ tapTempoActive' = r.tapTempoActive
  /\ lastPulse1' = r.lastPulse1
  /\ sampleCounter' = r.sampleCounter
  /\ lastFreezeActive' = r.lastFreezeActive
  /\ frozenWritePos' = r.frozenWritePos
  /\ frozenDelayTimeL' = r.frozenDelayTimeL
  /\ frozenDelayTimeR' = r.frozenDelayTimeR
  /\ inp' = in
  /\ loc' = r.loc
  /\ freezeAge' = IF in.pulse2 /\ was.pulse2 THEN freezeAge + k ELSE 0
  /\ atEdge' = IF in.pulse2 /\ ~was.pulse2
               THEN [buffer |-> s.delayBuffer,
                     wet |-> <<r.loc.delayedSampleLeft, r.loc.delayedSampleRight>>]
               ELSE atEdge
  /\ changes' = IF Controls(in) = Controls(inp) THEN changes ELSE changes + 1
  /\ tapLog' =
       LET rising == in.pulse1 /\ ~inp.pulse1
           wraps == IF LtU32(r.sampleCounter, sampleCounter)
                    THEN tapLog.wraps + 1 ELSE tapLog.wraps
       IN  [edge |-> IF rising THEN [seen |-> TRUE, at |-> r.loc.now]
                     ELSE tapLog.edge,
            pair |-> rising /\ tapLog.edge.seen,
            accept |-> IF r.loc.tapAccepted
                       THEN [seen |-> TRUE, at |-> r.loc.now]
                       ELSE tapLog.accept,
            wraps |-> wraps,
            edgeEra |-> IF rising THEN Era(wraps, r.sampleCounter)
                        ELSE tapLog.edgeEra]
  /\ past' =
       [wrote |-> IF ~r.loc.freezeActive /\ r.loc.filteredSignal # 0
                  THEN [c \in (DOMAIN past.wrote) \cup {r.loc.now} |->
                          IF c = r.loc.now THEN r.loc.filteredSignal
                          ELSE past.wrote[c]]
                  ELSE past.wrote,
        echoes |-> IF /\ r.loc.delayedSampleLeft # 0
                      /\ k > 1 \/ loc.delayedSampleLeft = 0
                   THEN Append(past.echoes, r.loc.now)
                   ELSE past.echoes]
  /\ old' = [obj |-> s, taps |-> tapLog, inp |-> was]
  /\ strings' = strings

\* One cycle of Smooth on the distance u = targetFine + 128 - smoothedDelay:
\* u - floor(u / 256) = ceil(255 * u / 256), written so that u occurs once
\* (for |u| < 2^23, where 255 * u fits)
Closer(u) == (255 * u + 255) \div 256

\* sixteen cycles of Smooth on the distance
Closer16(u) ==
  Closer(Closer(Closer(Closer(Closer(Closer(Closer(Closer(
  Closer(Closer(Closer(Closer(Closer(Closer(Closer(Closer(u))))))))))))))))

\* where n > 1 cycles are split in two: after the first 65536 of them when
\* there are more, at a multiple of 16 near the middle, or in the middle
SplitAt(n) ==
  IF n > 65536 THEN 65536
  ELSE IF n > 16 THEN 16 * ((n \div 16 + 1) \div 2)
  ELSE n \div 2

\* smoothedDelay after n cycles toward the same target: Smooth applied n times,
\* sixteen at a time where the distance allows, and the n cycles split in two
\* otherwise (it stays where it is once a cycle leaves it unchanged)
RECURSIVE SmoothN(_, _, _)
SmoothN(s, targetFine, n) ==
  IF n = 0 THEN s
  ELSE IF n = 1 THEN Smooth(s, targetFine)
  ELSE IF n = 16 /\ Abs(targetFine + 128 - s) < 8388608
  THEN targetFine + 128 - Closer16(targetFine + 128 - s)
  ELSE Bind(SmoothN(s, targetFine, SplitAt(n)), LAMBDA mid :
         IF mid = s THEN s ELSE SmoothN(mid, targetFine, n - SplitAt(n)))

\* A cycle fed in is quiet on s: no input rises, and apart from the counters,
\* smoothedDelay and the three last-input flags it leaves every field as it is.
QuietCycle(s, in) ==
  \E r \in {Cycle(s, in)} :
      /\ s.delayBuffer = <<>>
      /\ in.audioIn1 = 0 /\ in.audioIn2 = 0
      /\ ~(in.switchDown /\ ~s.lastSwitchDown)
      /\ ~(in.pulse1 /\ ~s.lastPulse1)
      /\ ~(in.pulse2 /\ ~s.lastFreezeActive)
      /\ r.delayBuffer = s.delayBuffer
      /\ r.lastRawControl = s.lastRawControl
      /\ r.currentMode = s.currentMode
      /\ r.hpfState = s.hpfState
      /\ r.shimmerHpfState = s.shimmerHpfState
      /\ r.saturationAccum = s.saturationAccum
      /\ r.lastTapTime = s.lastTapTime
      /\ r.tapInterval = s.tapInterval
      /\ r.tapTimeout = s.tapTimeout
      /\ r.tapTempoActive = s.tapTempoActive
      /\ r.frozenWritePos = s.frozenWritePos
      /\ r.frozenDelayTimeL = s.frozenDelayTimeL
      /\ r.frozenDelayTimeR = s.frozenDelayTimeR

\* The object after m >= 1 quiet cycles fed in, toward the target delay
\* targetFine.  With an empty buffer and silent input every read, every filter
\* and the write see 0 on each of them, the flags equal the inputs after the
\* first, and the tap deadline is not reached (CanHold), so each of the m
\* cycles is quiet as the first is.  b is smoothedDelay after the first m0 <= m
\* of the cycles.
Jump(s, in, m, targetFine, m0, b) ==
  [s EXCEPT
     !.sampleCounter = AddU32(s.sampleCounter, U32(m)),
     !.writeIndex = (s.writeIndex + m) % MAX_DELAY_SIZE,
     !.smoothedDelay = SmoothN(b, targetFine, m - m0),
     !.lastSwitchDown = in.switchDown,
     !.lastPulse1 = in.pulse1,
     !.lastFreezeActive = in.pulse2]

\* With a quiet first cycle, m >= 1 cycles can be taken at once: with tap tempo
\* active, the last of them is still before the deadline (the signed distance
\* to the deadline shrinks by one per cycle, so the ones between are too).
CanHold(s, m) ==
  s.tapTempoActive =>
    ~TimeoutReached(AddU32(s.sampleCounter, U32(m - 1)), s.tapTimeout)

Least(S) == CHOOSE n \in S : \A k \in S : n <= k

\* ProcessSample, once, fed in
Step(in) ==
  /\ \E s \in {State} : \E r \in {Cycle(s, in)} : Apply(s, r, in, 1, inp)
  /\ cycles' = cycles + 1
  /\ holds' = holds

\* ProcessSample, n times for an n of lens (each at least 2), fed in each time:
\* n - 1 quiet cycles, then the call itself.  The smoothing of the cycles that
\* every n of lens shares is computed once.
Hold(in, lens) ==
  /\ \E s \in {State} :
       /\ QuietCycle(s, in)
       /\ \E targetFine \in {Locals(s, in).targetDelay * 128} :
          \E m0 \in {Least(lens) - 1} :
          \E b \in {SmoothN(s.smoothedDelay, targetFine, m0)} :
          \E n \in lens :
            /\ CanHold(s, n - 1)
            /\ \E j \in {Jump(s, in, n - 1, targetFine, m0, b)} :
               \E r \in {Cycle(j, in)} : Apply(j, r, in, n, in)
  /\ cycles' = cycles
  /\ holds' = holds + 1

(***************************************************************************)
(* Tap tempo: the card fed taps on Pulse In 1 and a delay knob, with       *)
(* silent audio.  Single cycles are told apart from held stretches, whose  *)
(* lengths put the next edge just inside and just outside the tap window   *)
(* and just before the timeout deadline.                                   *)
(***************************************************************************)
MaxTapCycles == 3
MaxTapHolds == 2
MaxTapKnobMoves == 1

TapInput(p, k) == [NoInput EXCEPT !.pulse1 = p, !.knobX = k]

TapCycle ==
  /\ cycles < MaxTapCycles
  /\ \E p \in BOOLEAN, k \in {0, 2048} :
       /\ k # inp.knobX => changes < MaxTapKnobMoves
       /\ Step(TapInput(p, k))

TapHold ==
  /\ holds < MaxTapHolds
  /\ Hold(inp, {2397, 2398, 143998, 143999, 239998})

NextTap == TapCycle \/ TapHold

SpecTap == Init /\ [][NextTap]_vars

\* the sample count of the last cycle
Now == old.obj.sampleCounter

\* the samples between the last cycle and the rising edge before it
SinceEdge == SubU32(Now, old.taps.edge.at)

\* C1: a rising edge of the tap input X samples after the previous rising
\* edge, 2400 <= X <= 144000, leaves tapInterval = X, tap tempo active and the
\* deadline at this edge's sample count + 240000.
C1_TapAccepted ==
  (/\ tapLog.pair
   /\ GeU32(SinceEdge, 2400)
   /\ LeU32(SinceEdge, 144000))
  => (/\ tapInterval = IntOf(SinceEdge)
      /\ tapTempoActive
      /\ tapTimeout = AddU32(Now, U32(240000)))

\* a second edge exactly 2400 samples after the first has been taken
C1_Witness ==
  /\ tapLog.pair
  /\ SinceEdge = U32(2400)
  /\ tapInterval = 2400
  /\ tapTempoActive
  /\ tapTimeout = AddU32(Now, U32(240000))

\* C2 as stated: a rising edge whose interval X since the previous rising edge
\* is < 2400 or > 144000 leaves tapInterval and the active flag as they were
\* and sets lastTapTime to this edge's sample count.
C2_AsStated ==
  (/\ tapLog.pair
   /\ ~(GeU32(SinceEdge, 2400) /\ LeU32(SinceEdge, 144000)))
  => (/\ tapInterval = old.obj.tapInterval
      /\ tapTempoActive = old.obj.tapTempoActive
      /\ lastTapTime = Now)

\* C2: a rising edge whose interval X since the previous rising edge is < 2400
\* or > 144000 leaves tapInterval and the deadline as they were and sets
\* lastTapTime to this edge's sample count; the active flag is as it was,
\* except that it ends false when the edge's cycle has reached the deadline.
C2_TapRejected ==
  (/\ tapLog.pair
   /\ ~(GeU32(SinceEdge, 2400) /\ LeU32(SinceEdge, 144000)))
  => (/\ tapInterval = old.obj.tapInterval
      /\ tapTimeout = old.obj.tapTimeout
      /\ tapTempoActive =
           (old.obj.tapTempoActive /\ ~NonNegS32(SubU32(Now, old.obj.tapTimeout)))
      /\ lastTapTime = Now)

\* an edge 240000 samples after the taken one before it: it is left out, and
\* it falls on the deadline, so that its cycle ends with tap tempo idle
C2_Witness ==
  /\ tapLog.pair
  /\ SinceEdge = U32(240000)
  /\ tapLog.accept = old.taps.edge
  /\ old.obj.tapTempoActive
  /\ lastTapTime = Now
  /\ Now = tapTimeout
  /\ ~tapTempoActive

\* the samples between the last cycle and the last tap the code took
SinceAccept == SubU32(Now, tapLog.accept.at)

\* C3: tap tempo is active after a cycle only if the last taken tap is less
\* than 240000 samples before that cycle, and it goes from active to idle only
\* in the cycle 240000 samples after the last taken tap, whatever edges were
\* left out in between.
C3_TapTimeout ==
  /\ tapTempoActive =>
       /\ tapLog.accept.seen
       /\ LeU32(SinceAccept, 239999)
  /\ (old.obj.tapTempoActive /\ ~tapTempoActive) =>
       /\ tapLog.accept = old.taps.accept
       /\ SinceAccept = U32(240000)

\* tap tempo has timed out 240000 samples after the last taken tap, with an
\* edge that was left out in between
C3_Witness ==
  /\ tapLog.accept.seen
  /\ tapLog.edge.at # tapLog.accept.at
  /\ tapLog.edge.at # Now
  /\ SinceAccept = U32(240000)
  /\ old.obj.tapTempoActive
  /\ ~tapTempoActive

\* C4: after every cycle the target delay is tapInterval clamped to
\* [100, 95000] if tap tempo is active, whatever the delay knob and CV1, and
\* 100 + held * 94900 / 4095 of the held control value if it is idle.
C4_TapOverride ==
  cycles + holds > 0 =>
    loc.targetDelay =
      IF tapTempoActive
      THEN IF tapInterval < 100 THEN 100
           ELSE IF tapInterval > 95000 THEN 95000 ELSE tapInterval
      ELSE 100 + (lastRawControl * 94900) \div 4095

\* tap tempo is active with the knob at half: the target is the clamped
\* interval, not the 47557 samples of the knob
C4_Witness ==
  /\ tapTempoActive
  /\ tapInterval > 95000
  /\ lastRawControl = 2048
  /\ inp.knobX = 2048
  /\ loc.targetDelay = 95000

\* C30 as stated: tap tempo is active only after two rising edges of the tap
\* input: it goes from idle to active only in a cycle with a rising edge that
\* has a rising edge before it, and the first rising edge since startup,
\* whenever it comes, leaves tap tempo idle and sets lastTapTime to its sample
\* count.
C30_AsStated ==
  /\ (tapTempoActive /\ ~old.obj.tapTempoActive) => tapLog.pair
  /\ (tapLog.edge.seen /\ ~old.taps.edge.seen) =>
       /\ ~tapTempoActive
       /\ lastTapTime = Now

(***************************************************************************)
(* Freeze: the card fed audio and a freeze gate.  In the first cycles the  *)
(* gate may rise, the delay knob may move, the switch may be pressed (a    *)
(* press lasts one cycle, and presses follow each other as fast as they    *)
(* can) and a tap may come; the knob may also move right after the freeze  *)
(* edge.  The run goes on while the gate is high, which it stays until the *)
(* loop has been played once.  Before the first cycle the card may have    *)
(* run idle, so that the write cursor is near the end of the buffer.       *)
(***************************************************************************)
MaxFreezeCycles == 106
MaxLeadIn == 3
MaxFreezeKnobMoves == 1
MaxFreezeHolds == 1
FreezeKnobs == {0, 2048}

\* the audio fed in cycle n
Tone(n) == ((n * 733) % 4001) - 2000

FreezeInput(g, sw, p, k) ==
  [NoInput EXCEPT !.audioIn1 = Tone(cycles), !.audioIn2 = Tone(cycles + 50),
                  !.pulse2 = g, !.switchDown = sw, !.pulse1 = p, !.knobX = k]

FreezeCycle ==
  /\ cycles < MaxFreezeCycles
  /\ cycles < MaxLeadIn \/ inp.pulse2
  /\ \E g, sw, p \in BOOLEAN, k \in FreezeKnobs :
       /\ (g /\ ~inp.pulse2) => cycles < MaxLeadIn
       /\ (~g /\ inp.pulse2) => freezeAge > frozenDelayTimeL
       /\ sw => /\ ~inp.switchDown
                /\ cycles < 2 * MaxLeadIn
                /\ cycles = 0 \/ old.inp.switchDown
       /\ p => cycles = 0
       /\ k # inp.knobX => /\ changes < MaxFreezeKnobMoves
                           /\ cycles < MaxLeadIn \/ freezeAge = 0
       /\ Step(FreezeInput(g, sw, p, k))

FreezeHold ==
  /\ cycles = 0
  /\ holds < MaxFreezeHolds
  /\ Hold(inp, {95950})

NextFreeze == FreezeCycle \/ FreezeHold

SpecFreeze == Init /\ [][NextFreeze]_vars

\* the freeze gate in the last cycle, and whether it rose in it
GateHigh == inp.pulse2
GateRose == inp.pulse2 /\ ~old.inp.pulse2

\* the delayed samples of the last cycle
Wet == <<loc.delayedSampleLeft, loc.delayedSampleRight>>

\* C5: a cycle with the freeze gate high changes no slot of the delay buffer,
\* which is therefore as the freeze edge found it as long as the gate stays
\* high; a cycle with the gate low overwrites the slot at the write cursor and
\* no other.
C5_FreezeKeepsStore ==
  cycles + holds > 0 =>
    /\ GateHigh =>
         /\ delayBuffer = old.obj.delayBuffer
         /\ delayBuffer = atEdge.buffer
    /\ ~GateHigh =>
         /\ \A i \in (DOMAIN delayBuffer \cup DOMAIN old.obj.delayBuffer)
                       \ {old.obj.writeIndex} :
              BufRead(delayBuffer, i) = BufRead(old.obj.delayBuffer, i)
         /\ BufRead(delayBuffer, old.obj.writeIndex) = loc.filteredSignal

\* the gate is released after a freeze over a buffer with audio in it: the
\* cycle of the release found the buffer as the freeze edge did, and wrote
C5_Witness ==
  /\ ~GateHigh
  /\ old.inp.pulse2
  /\ atEdge.buffer # <<>>
  /\ old.obj.delayBuffer = atEdge.buffer
  /\ BufRead(delayBuffer, old.obj.writeIndex) # 0
  /\ BufRead(old.obj.delayBuffer, old.obj.writeIndex) = 0

\* C6 as stated: while the freeze gate stays high the delayed output of both
\* channels repeats with period frozenDelayTimeL; so the cycle
\* frozenDelayTimeL cycles after the freeze edge has the delayed samples of
\* the edge cycle.
C6_AsStated ==
  (GateHigh /\ freezeAge = frozenDelayTimeL) => Wet = atEdge.wet

\* C7: while the freeze gate is high the cursor both channels read from is
\* frozenWritePos + ((write cursor - frozenWritePos) mod C) mod
\* (frozenDelayTimeL + 1), reduced into [0, C); each channel reads its own
\* frozen delay behind that one cursor.
C7_FrozenCursor ==
  (cycles + holds > 0 /\ GateHigh) =>
    LET C == 96000
        advanced == (old.obj.writeIndex - frozenWritePos) % C
        cursor == (frozenWritePos + (advanced % (frozenDelayTimeL + 1))) % C
    IN  /\ loc.effectiveWriteIndex = cursor
        /\ loc.readIndex1L = (cursor - frozenDelayTimeL - 1) % C
        /\ loc.readIndex2L = (cursor - frozenDelayTimeL - 2) % C
        /\ loc.readIndex1R = (cursor - frozenDelayTimeR - 1) % C
        /\ loc.readIndex2R = (cursor - frozenDelayTimeR - 2) % C

\* the loop has started over, the write cursor has wrapped behind
\* frozenWritePos, and the two channels have different frozen delays
C7_Witness ==
  /\ GateHigh
  /\ freezeAge = frozenDelayTimeL + 1
  /\ old.obj.writeIndex < frozenWritePos
  /\ frozenDelayTimeL # frozenDelayTimeR
  /\ loc.effectiveWriteIndex = frozenWritePos

\* C8 as stated: with the freeze gate high, the next cycle's delayed samples
\* are the same whether or not the delay knob is moved in it.
C8_AsStated ==
  (cycles + holds > 0 /\ GateHigh) =>
    \A k \in FreezeKnobs :
      LET moved == Locals(State, [inp EXCEPT !.pulse2 = TRUE, !.knobX = k])
          still == Locals(State, [inp EXCEPT !.pulse2 = TRUE])
      IN  <<moved.delayedSampleLeft, moved.delayedSampleRight>> =
          <<still.delayedSampleLeft, still.delayedSampleRight>>

\* C9: frozenWritePos, frozenDelayTimeL and frozenDelayTimeR are assigned in a
\* cycle in which the freeze gate is high after a cycle in which it was low,
\* the write cursor and the integer left and right delays of that cycle, and
\* keep their values in every other cycle; with the gate high both frozen
\* delays are in [100, 95000], so frozenDelayTimeL + 1 is not 0.
C9_FreezeCapture ==
  cycles + holds > 0 =>
    /\ GateRose =>
         /\ frozenWritePos = old.obj.writeIndex
         /\ frozenDelayTimeL = loc.modulatedDelay \div 128
         /\ frozenDelayTimeR = loc.modulatedDelayRight \div 128
    /\ ~GateRose =>
         /\ frozenWritePos = old.obj.frozenWritePos
         /\ frozenDelayTimeL = old.obj.frozenDelayTimeL
         /\ frozenDelayTimeR = old.obj.frozenDelayTimeR
    /\ GateHigh =>
         /\ 100 <= frozenDelayTimeL /\ frozenDelayTimeL <= 95000
         /\ 100 <= frozenDelayTimeR /\ frozenDelayTimeR <= 95000

\* the gate has stayed high while the knob moved: the write cursor and the
\* left delay of the last cycle are no longer the frozen ones
C9_Witness ==
  /\ GateHigh
  /\ ~GateRose
  /\ frozenWritePos # old.obj.writeIndex
  /\ frozenDelayTimeL # loc.modulatedDelay \div 128
  /\ frozenDelayTimeL = old.obj.frozenDelayTimeL

\* C10: the four indices a cycle reads the delay buffer at are in [0, 96000).
C10_ReadBounds ==
  \A i \in {loc.readIndex1L, loc.readIndex2L, loc.readIndex1R, loc.readIndex2R} :
    0 <= i /\ i < 96000

\* a frozen read in SHIMMER mode with tap tempo active whose indices have
\* wrapped below 0
C10_Witness ==
  /\ GateHigh
  /\ tapTempoActive
  /\ currentMode = SHIMMER
  /\ loc.readIndex2L > loc.effectiveWriteIndex
  /\ loc.readIndex2R > loc.effectiveWriteIndex

\* C25: the write cursor is 0 at startup, is in [0, 96000) after every
\* cycle, and every cycle moves it on by 1 modulo 96000, with the freeze gate
\* high as with the gate low.
C25_WriteCursor ==
  /\ cycles + holds = 0 => writeIndex = 0
  /\ 0 <= writeIndex /\ writeIndex < 96000
  /\ cycles + holds > 0 => writeIndex = (old.obj.writeIndex + 1) % 96000

\* with the gate high the cursor has gone from the last slot to the first
C25_Witness ==
  /\ GateHigh
  /\ ~GateRose
  /\ old.obj.writeIndex = 95999
  /\ writeIndex = 0
  /\ delayBuffer = old.obj.delayBuffer

(***************************************************************************)
(* The panel: the card fed the mode switch and a delay control (knob X and *)
(* CV 1) that moves by less and by more than the hysteresis threshold,     *)
(* with silent audio.                                                      *)
(***************************************************************************)
MaxPanelCycles == 9
MaxPanelKnobMoves == 2

PanelInput(sw, k, c) ==
  [NoInput EXCEPT !.switchDown = sw, !.knobX = k, !.cv1 = c]

PanelCycle ==
  /\ cycles < MaxPanelCycles
  /\ \E sw \in BOOLEAN, k \in {0, 7, 8, 16}, c \in {0, -3} :
       /\ <<k, c>> # Controls(inp) => changes < MaxPanelKnobMoves
       /\ Step(PanelInput(sw, k, c))

NextPanel == PanelCycle

SpecPanel == Init /\ [][NextPanel]_vars

\* the switch was down in the last cycle and up in the cycle before it
SwitchPressed == cycles > 1 /\ inp.switchDown /\ ~old.inp.switchDown

\* C11: the mode is CLEAN after construction; a cycle in which the switch is
\* down, the switch having been up in the cycle before, moves it one step on
\* in the order CLEAN, SATURATION, SHIMMER, LOFI, CLEAN; every other cycle
\* (the first one, and those with the switch held down or up) leaves it.
C11_ModeCycling ==
  /\ cycles = 0 => currentMode = CLEAN
  /\ cycles > 0 =>
       currentMode =
         IF SwitchPressed
         THEN CASE old.obj.currentMode = CLEAN -> SATURATION
                [] old.obj.currentMode = SATURATION -> SHIMMER
                [] old.obj.currentMode = SHIMMER -> LOFI
                [] old.obj.currentMode = LOFI -> CLEAN
         ELSE old.obj.currentMode

\* the fourth press has brought the mode from LOFI back to CLEAN
C11_Witness ==
  /\ SwitchPressed
  /\ old.obj.currentMode = LOFI
  /\ currentMode = CLEAN

\* the delay control of the last cycle: knob X + CV 1, clamped to 0..4095
Combined ==
  IF inp.knobX + inp.cv1 > 4095 THEN 4095
  ELSE IF inp.knobX + inp.cv1 < 0 THEN 0 ELSE inp.knobX + inp.cv1

\* how far the delay control of the last cycle is from the value held
ControlDelta ==
  IF Combined < old.obj.lastRawControl THEN old.obj.lastRawControl - Combined
  ELSE Combined - old.obj.lastRawControl

\* C12 as stated: the held control value differs after the cycle from its
\* value before if and only if the mode is LOFI or the control is 8 or more
\* away from it.
C12_AsStated ==
  cycles > 0 =>
    ((lastRawControl # old.obj.lastRawControl)
       <=> (currentMode = LOFI \/ ControlDelta >= 8))

\* C12: after a cycle the held control value is the cycle's delay control if
\* the mode is LOFI or the control is 8 or more away from the value held
\* before, and the value held before otherwise; it is the value the cycle
\* maps to the delay.
C12_HysteresisLatch ==
  cycles > 0 =>
    /\ lastRawControl = IF currentMode = LOFI \/ ControlDelta >= 8
                        THEN Combined
                        ELSE old.obj.lastRawControl
    /\ loc.held = lastRawControl
    /\ loc.targetDelay = 100 + (lastRawControl * 94900) \div 4095

\* in LOFI mode the held value has followed a move of less than 8
C12_Witness ==
  /\ currentMode = LOFI
  /\ ControlDelta > 0
  /\ ControlDelta < 8
  /\ lastRawControl = Combined

(***************************************************************************)
(* The feedback control: knob Y turned from 0 to 4095, one step per cycle, *)
(* with CV 2 at rest or at either end of its range, and silent audio.      *)
(***************************************************************************)
MaxGainCycles == 4096

\* knob Y in cycle n
Turned(n) == IF n > 4095 THEN 4095 ELSE n

GainInput(c) == [NoInput EXCEPT !.knobY = Turned(cycles), !.cv2 = c]

GainCycle ==
  /\ cycles < MaxGainCycles
  /\ \E c \in {-2048, 0, 2047} : Step(GainInput(c))

NextGain == GainCycle

SpecGain == Init /\ [][NextGain]_vars

\* the feedback amount of the last cycle: knob Y + CV 2, clamped to 0..4095
Feedback ==
  IF inp.knobY + inp.cv2 > 4095 THEN 4095
  ELSE IF inp.knobY + inp.cv2 < 0 THEN 0 ELSE inp.knobY + inp.cv2

\* C13: whatever the feedback amount in 0..4095, the gain that the cycle
\* applies to the fresh input is at least 205 and at most 4095.
C13_FeedbackFloor ==
  cycles > 0 =>
    /\ loc.combinedFeedback = Feedback
    /\ 205 <= loc.inputGain
    /\ loc.inputGain <= 4095

\* at full feedback the input gain is the floor
C13_Witness ==
  /\ cycles > 0
  /\ inp.cv2 = 0
  /\ Feedback = 4095
  /\ loc.inputGain = 205

\* C19 as stated: inputGain = max(205, 4095 - f * f / 4095) and
\* feedbackGain = 4095 - (4095 - f) * (4095 - f) / 4095, which is 0 at f = 0
\* and 4095 at f = 4095.
C19_AsStated ==
  cycles > 0 =>
    /\ loc.inputGain =
         IF 4095 - (Feedback * Feedback) \div 4095 < 205 THEN 205
         ELSE 4095 - (Feedback * Feedback) \div 4095
    /\ loc.feedbackGain = 4095 - ((4095 - Feedback) * (4095 - Feedback)) \div 4095
    /\ Feedback = 0 => loc.feedbackGain = 0
    /\ Feedback = 4095 => loc.feedbackGain = 4095

\* C19: inputGain = max(205, 4095 - ((f * f + 2048) >> 12)) and
\* feedbackGain = 4095 - (((4095 - f) * (4095 - f) + 2048) >> 12) for the
\* feedback amount f: the squares are divided by 4096 and rounded, so that
\* feedbackGain is 1 at f = 0, where it still turns every delayed sample of
\* -2047..2047 into a feedback signal of 0, and 4095 at f = 4095.
C19_Crossfade ==
  cycles > 0 =>
    /\ loc.inputGain =
         IF 4095 - (Feedback * Feedback + 2048) \div 4096 < 205 THEN 205
         ELSE 4095 - (Feedback * Feedback + 2048) \div 4096
    /\ loc.feedbackGain =
         4095 - ((4095 - Feedback) * (4095 - Feedback) + 2048) \div 4096
    /\ Feedback = 0 =>
         /\ loc.feedbackGain = 1
         /\ \A d \in -2047 .. 2047 : (d * loc.feedbackGain + 2048) \div 4096 = 0
    /\ Feedback = 4095 => loc.feedbackGain = 4095

\* with the feedback amount at 0 the feedback gain is 1
C19_Witness ==
  /\ cycles > 0
  /\ Feedback = 0
  /\ loc.feedbackGain = 1
  /\ loc.inputGain = 4095

(***************************************************************************)
(* Loud audio: the card fed a steady full-scale level on both audio        *)
(* inputs, with the feedback amount and the delay knob set in the first    *)
(* cycle, the mode switch pressed in the first cycles, and the mix knob    *)
(* at either end in every cycle.  The freeze gate stays low.               *)
(***************************************************************************)
MaxLoudCycles == 120
MaxLoudLeadIn == 4

LoudInput(a, sw, x, y, m) ==
  [NoInput EXCEPT !.audioIn1 = a, !.audioIn2 = a, !.switchDown = sw,
                  !.knobX = x, !.knobY = y, !.knobMain = m]

LoudCycle ==
  /\ cycles < MaxLoudCycles
  /\ \E a \in {-2048, 2047}, sw \in BOOLEAN, x \in {0, 8}, y \in {0, 2048},
        m \in {0, 4095} :
       /\ cycles > 0 => a = inp.audioIn1 /\ x = inp.knobX /\ y = inp.knobY
       /\ sw => cycles < MaxLoudLeadIn
       /\ Step(LoudInput(a, sw, x, y, m))

NextLoud == LoudCycle

SpecLoud == Init /\ [][NextLoud]_vars

\* the mono input of the last cycle
MonoIn == (inp.audioIn1 + inp.audioIn2 + 1) \div 2

\* C14: with the mix knob at 0 both outputs of a cycle are its mono input
\* clamped to -2047..2047, whatever the delayed samples; with the mix knob at
\* 4095 the left output is the left delayed sample and the right output the
\* right one, whatever the input.
C14_DryWet ==
  cycles > 0 =>
    /\ inp.knobMain = 0 =>
         /\ loc.outputLeft = IF MonoIn < -2047 THEN -2047
                             ELSE IF MonoIn > 2047 THEN 2047 ELSE MonoIn
         /\ loc.outputRight = loc.outputLeft
    /\ inp.knobMain = 4095 =>
         /\ loc.outputLeft = loc.delayedSampleLeft
         /\ loc.outputRight = loc.delayedSampleRight

\* fully dry, the input of -2048 comes out as -2047 whatever the (loud)
\* delayed sample
C14_Witness ==
  /\ inp.knobMain = 0
  /\ MonoIn = -2048
  /\ loc.delayedSampleLeft < -1000
  /\ loc.outputLeft = -2047
  /\ loc.outputRight = -2047

\* C15: every slot of the delay buffer and both outputs of every cycle are in
\* -2047..2047.
C15_SampleRange ==
  /\ \A i \in DOMAIN delayBuffer :
       -2047 <= delayBuffer[i] /\ delayBuffer[i] <= 2047
  /\ -2047 <= loc.outputLeft /\ loc.outputLeft <= 2047
  /\ -2047 <= loc.outputRight /\ loc.outputRight <= 2047

\* the signal to store was above the range and 2047 was stored
C15_Witness ==
  /\ cycles > 0
  /\ highpass(loc.mixedSignal, old.obj.hpfState).out > 2047
  /\ BufRead(delayBuffer, old.obj.writeIndex) = 2047

\* the sample stored by the cycle n cycles before the last one
Stored(n) ==
  LET c == SubU32(Now, U32(n))
  IN  IF c \in DOMAIN past.wrote THEN past.wrote[c] ELSE 0

\* the delayed sample of a channel whose delay is modulated (in 1/128
\* sample), read behind the cursor e of the buffer the last cycle found
ReadBehind(e, modulated) ==
  LET d == modulated \div 128
      f == modulated % 128
      s1 == BufRead(old.obj.delayBuffer, (e - d - 1) % 96000)
      s2 == BufRead(old.obj.delayBuffer, (e - d - 2) % 96000)
  IN  (s2 * f + s1 * (128 - f) + 64) \div 128

\* C20: the delayed sample of each channel is (s2 * f + s1 * (128 - f) + 64)
\* >> 7 for the samples s1 and s2 that are d + 1 and d + 2 slots behind the
\* cursor, d and f being the whole and the fractional part of the channel's
\* delay; with the gate low the cursor is the write cursor, and with f = 0 the
\* delayed sample is the sample stored d + 1 cycles before.
C20_FractionalRead ==
  (cycles > 0 /\ ~GateHigh) =>
    /\ loc.delayedSampleLeft = ReadBehind(old.obj.writeIndex, loc.modulatedDelay)
    /\ loc.delayedSampleRight =
         ReadBehind(old.obj.writeIndex, loc.modulatedDelayRight)
    /\ \A m \in {loc.modulatedDelay, loc.modulatedDelayRight} :
         (m % 128 = 0 /\ cycles > m \div 128 + 1) =>
           ReadBehind(old.obj.writeIndex, m) = Stored(m \div 128 + 1)

\* a read between two stored samples that differ
C20_Witness ==
  /\ ~GateHigh
  /\ loc.fractionLeft > 0
  /\ loc.delayedSampleLeft # BufRead(old.obj.delayBuffer, loc.readIndex1L)
  /\ loc.delayedSampleLeft # BufRead(old.obj.delayBuffer, loc.readIndex2L)
  /\ loc.delayedSampleLeft # 0

(***************************************************************************)
(* One impulse: the mode is chosen with the switch and the delay and       *)
(* feedback knobs are set in the first cycles, the card then runs idle     *)
(* until the delay has settled, is fed one cycle of audio, and runs on     *)
(* with silent input.  The mix knob is at 4095 and the freeze gate low.    *)
(***************************************************************************)
MaxEchoCycles == 1010
MaxEchoLeadIn == 4

EchoInput(a, sw, x, y) ==
  [NoInput EXCEPT !.audioIn1 = a, !.audioIn2 = a, !.switchDown = sw,
                  !.knobX = x, !.knobY = y, !.knobMain = 4095]

\* the cycles before the idle stretch
EchoLeadIn ==
  /\ cycles < MaxEchoLeadIn
  /\ holds = 0
  /\ \E sw \in BOOLEAN, x \in {8, 39}, y \in {0, 4095} :
       /\ cycles > 0 => x = inp.knobX /\ y = inp.knobY
       /\ Step(EchoInput(0, sw, x, y))

\* the idle stretch
EchoSettle ==
  /\ cycles = MaxEchoLeadIn
  /\ holds = 0
  /\ Hold(inp, {4000})

\* the cycle that is fed the impulse
EchoImpulse ==
  /\ cycles = MaxEchoLeadIn
  /\ holds = 1
  /\ \E a \in {100, 500} :
       Step(EchoInput(a, inp.switchDown, inp.knobX, inp.knobY))

\* the cycles after it
EchoRun ==
  /\ cycles > MaxEchoLeadIn
  /\ cycles < MaxEchoCycles
  /\ Step(EchoInput(0, inp.switchDown, inp.knobX, inp.knobY))

NextEcho == EchoLeadIn \/ EchoSettle \/ EchoImpulse \/ EchoRun

SpecEcho == Init /\ [][NextEcho]_vars

\* the impulse has been fed, and the cycles from its cycle to the last one
Fed == holds = 1 /\ cycles > MaxEchoLeadIn
SinceImpulse == cycles - MaxEchoLeadIn - 1

\* the delay control has settled: another cycle leaves smoothedDelay as it is
Settled == Smooth(smoothedDelay, loc.targetDelay * 128) = smoothedDelay

\* C16 as stated: in CLEAN mode with the gate low, tap tempo idle, the delay
\* control settled at its target of D samples, feedback 0 and mix 4095, the
\* impulse of cycle 0 gives a non-zero output in cycle D and an output of 0 in
\* every cycle more than one cycle away from D.
C16_AsStated ==
  (/\ Fed
   /\ currentMode = CLEAN /\ ~GateHigh /\ ~tapTempoActive /\ Settled
   /\ Feedback = 0 /\ inp.knobMain = 4095) =>
    LET D == loc.targetDelay
    IN  /\ SinceImpulse = D => loc.outputLeft # 0
        /\ (SinceImpulse < D - 1 \/ SinceImpulse > D + 1) => loc.outputLeft = 0

\* the cycles between two echoes: the left delayed sample leaves 0 in each
Interval(i) == IntOf(SubU32(past.echoes[i + 1], past.echoes[i]))

\* C17 as stated: in SHIMMER mode with feedback, each interval between two
\* echoes of the impulse is about 0.667 times the one before (between 0.6 and
\* 0.75 times).
C17_AsStated ==
  (/\ Fed
   /\ currentMode = SHIMMER /\ ~GateHigh /\ Feedback > 0
   /\ Len(past.echoes) >= 3) =>
    /\ 60 * Interval(1) <= 100 * Interval(2)
    /\ 100 * Interval(2) <= 75 * Interval(1)

(***************************************************************************)
(* The counter wraps: the card has run idle for 2^32 - 100000 cycles (a    *)
(* day at 48 kHz) when the taps begin, so that sampleCounter passes 2^32   *)
(* between two taps, or between a tap that is taken and its deadline.  The *)
(* held stretches put the second tap at either end of the tap window, and  *)
(* the last cycle just before the deadline.                                *)
(***************************************************************************)
MaxWrapCycles == 4
MaxWrapHolds == 2
WrapIdleLens == <<2147000000, 2147000000, 867296>>

\* the idle stretches, one after the other
WrapIdle ==
  /\ cycles = 0
  /\ holds < Len(WrapIdleLens)
  /\ Hold(NoInput, {WrapIdleLens[holds + 1]})

WrapCycle ==
  /\ holds >= Len(WrapIdleLens)
  /\ cycles < MaxWrapCycles
  /\ \E p \in BOOLEAN : Step(TapInput(p, 0))

WrapHold ==
  /\ holds >= Len(WrapIdleLens)
  /\ holds < Len(WrapIdleLens) + MaxWrapHolds
  /\ Hold(inp, {2398, 143998, 239999})

NextWrap == WrapIdle \/ WrapCycle \/ WrapHold

SpecWrap == Init /\ [][NextWrap]_vars

\* the counter has wrapped between the last tap the code took and the last
\* cycle
Wrapped == tapLog.accept.seen /\ tapLog.accept.at.h >= 32768 /\ Now.h < 32768

\* C18: with the counters wrapping modulo 2^32, tap tempo is active after
\* every cycle less than 240000 cycles after the last tap taken, and idle
\* after every cycle 240000 cycles or more after it, whether or not the
\* counter has wrapped in between.
C18_WrapSafe ==
  tapLog.accept.seen =>
    (tapTempoActive <=> LeU32(SinceAccept, 239999))

\* the deadline of a tap taken before the wrap has been reached after it,
\* with tap tempo active until then
C18_Witness ==
  /\ Wrapped
  /\ SinceAccept = U32(240000)
  /\ old.obj.tapTempoActive
  /\ ~tapTempoActive

(***************************************************************************)
(* Stereo spread: the delay knob is set in the first cycle and the card    *)
(* runs idle until the delay has settled.  It is then fed audio, with the  *)
(* mix knob at 4095; in the cycles that follow the knob may move once, the *)
(* switch is pressed (a press lasts one cycle, and presses follow each     *)
(* other as fast as they can) and the freeze gate may rise.  The run goes  *)
(* on while the gate is high, which it then stays.                         *)
(***************************************************************************)
MaxStereoCycles == 108
MaxStereoLeadIn == 7
StereoKnobs == {0, 4095}

StereoInput(a1, a2, g, sw, k) ==
  [NoInput EXCEPT !.audioIn1 = a1, !.audioIn2 = a2, !.pulse2 = g,
                  !.switchDown = sw, !.knobX = k, !.knobMain = 4095]

\* the first cycle: the knob is set
StereoSet ==
  /\ cycles = 0
  /\ \E k \in StereoKnobs : Step(StereoInput(0, 0, FALSE, FALSE, k))

\* the idle stretch
StereoSettle ==
  /\ cycles = 1
  /\ holds = 0
  /\ Hold(inp, {4000})

\* the cycles with audio
StereoCycle ==
  /\ holds = 1
  /\ cycles < MaxStereoCycles
  /\ cycles <= MaxStereoLeadIn \/ inp.pulse2
  /\ \E g, sw \in BOOLEAN, k \in StereoKnobs :
       /\ (g /\ ~inp.pulse2) => cycles <= MaxStereoLeadIn
       /\ inp.pulse2 => g
       /\ sw => /\ ~inp.switchDown
                /\ cycles <= MaxStereoLeadIn
                /\ cycles = 1 \/ old.inp.switchDown
       /\ k # inp.knobX => cycles = 1
       /\ Step(StereoInput(Tone(cycles), Tone(cycles + 50), g, sw, k))

NextStereo == StereoSet \/ StereoSettle \/ StereoCycle

SpecStereo == Init /\ [][NextStereo]_vars

\* C21: in every cycle the left delay, in 1/128 sample, is in [100 * 128,
\* 95000 * 128], and the right delay is the left delay in CLEAN and LOFI mode,
\* the left delay * 101 / 100 in SATURATION mode and the left delay * 110 / 100
\* in SHIMMER mode (the quotients cut off), then clamped to [100 * 128,
\* 95000 * 128].
C21_StereoOffset ==
  cycles + holds > 0 =>
    LET left == loc.modulatedDelay
        spread == CASE currentMode = CLEAN -> left
                    [] currentMode = LOFI -> left
                    [] currentMode = SATURATION -> (left * 101) \div 100
                    [] currentMode = SHIMMER -> (left * 110) \div 100
    IN  /\ 100 * 128 <= left /\ left <= 95000 * 128
        /\ loc.modulatedDelayRight =
             IF spread < 100 * 128 THEN 100 * 128
             ELSE IF spread > 95000 * 128 THEN 95000 * 128 ELSE spread

\* in SATURATION mode the left delay is near its upper end, and the right
\* delay has been clamped to it
C21_Witness ==
  /\ currentMode = SATURATION
  /\ (loc.modulatedDelay * 101) \div 100 > 95000 * 128
  /\ loc.modulatedDelay < 95000 * 128
  /\ loc.modulatedDelayRight = 95000 * 128

\* C22 as stated: in every cycle whose mode is CLEAN or LOFI the left and
\* the right output are equal, whatever the freeze gate and the modes before.
C22_AsStated ==
  (cycles > 0 /\ (currentMode = CLEAN \/ currentMode = LOFI)) =>
    loc.outputLeft = loc.outputRight

(***************************************************************************)
(* The controls at their ends: knob X turned from 0 to 4095 and knob Y     *)
(* from 4095 to 0, one step per cycle, with CV 1 and CV 2 each at rest or  *)
(* at either end of its range from the first cycle on, and silent audio.   *)
(***************************************************************************)
MaxClampCycles == 4096

ClampInput(c1, c2) ==
  [NoInput EXCEPT !.knobX = Turned(cycles), !.cv1 = c1,
                  !.knobY = 4095 - Turned(cycles), !.cv2 = c2]

ClampCycle ==
  /\ cycles < MaxClampCycles
  /\ \E c1, c2 \in {-2048, 0, 2047} :
       /\ cycles > 0 => c1 = inp.cv1 /\ c2 = inp.cv2
       /\ Step(ClampInput(c1, c2))

NextClamp == ClampCycle

SpecClamp == Init /\ [][NextClamp]_vars

\* C23: for every knob X in 0..4095 and CV 1 in -2048..2047 the delay control
\* of the cycle is knob X + CV 1 clamped to 0..4095 and the target delay is in
\* [100, 95000]; the feedback amount is knob Y + CV 2 clamped to 0..4095.  A
\* sum out of range is acted on as its clamped value is: when that is 8 or more
\* away from the value held, it becomes the value held and sets the target.
C23_ControlClamp ==
  cycles > 0 =>
    /\ loc.combinedControl = Combined
    /\ loc.combinedFeedback = Feedback
    /\ 100 <= loc.targetDelay /\ loc.targetDelay <= 95000
    /\ ControlDelta >= 8 =>
         /\ lastRawControl = Combined
         /\ loc.targetDelay = 100 + (Combined * 94900) \div 4095

\* knob X + CV 1 is above 4095 and knob Y + CV 2 below 0: the delay control
\* is 4095 and has brought the target to 95000, the feedback amount is 0
C23_Witness ==
  /\ inp.knobX + inp.cv1 > 4095 + 8
  /\ inp.knobY + inp.cv2 < 0
  /\ loc.combinedControl = 4095
  /\ lastRawControl = 4095
  /\ loc.targetDelay = 95000
  /\ loc.combinedFeedback = 0

(***************************************************************************)
(* Saturation: the card records a loud square wave with the feedback knob  *)
(* at 0, in CLEAN mode, until the delayed samples are loud; the feedback   *)
(* knob is then at 4095.  The switch is pressed when the knob is turned up *)
(* and again a hundred cycles later (a press lasts one cycle, and presses  *)
(* follow each other as fast as they can), so that every mode is entered   *)
(* and left with the other modes' state away from 0.  Knob X is 0, the mix *)
(* knob 4095 and the freeze gate low.                                      *)
(***************************************************************************)
MaxSatCycles == 212
MaxSatPresses == 4
SatWindows == {104, 204}

\* the audio fed in cycle n
Square(n) == IF n % 2 = 0 THEN 2047 ELSE -2047

SatInput(sw) ==
  [NoInput EXCEPT !.audioIn1 = Square(cycles), !.audioIn2 = Square(cycles),
                  !.switchDown = sw,
                  !.knobY = IF \A w \in SatWindows : cycles < w THEN 0 ELSE 4095,
                  !.knobMain = 4095]

SatCycle ==
  /\ cycles < MaxSatCycles
  /\ \E sw \in BOOLEAN :
       /\ sw => /\ ~inp.switchDown
                /\ \E w \in SatWindows :
                     /\ w <= cycles /\ cycles < w + 2 * MaxSatPresses
                     /\ cycles = w \/ old.inp.switchDown
       /\ Step(SatInput(sw))

NextSat == SatCycle

SpecSat == Init /\ [][NextSat]_vars

\* C24: the saturation accumulator changes only in a cycle whose mode is
\* SATURATION and the shimmer highpass state only in a cycle whose mode is
\* SHIMMER; a cycle that changes the mode resets neither: the state of the
\* mode entered goes on from the value it was left with.
C24_ModeStateKept ==
  cycles > 0 =>
    LET x == loc.feedbackIn
        acc == old.obj.saturationAccum
        st == old.obj.shimmerHpfState
        grown == (252 * acc + 128) \div 256 + ((IF x < 0 THEN -x ELSE x) + 128) \div 256
    IN  /\ saturationAccum =
             IF currentMode = SATURATION
             THEN IF grown > 400 THEN 400 ELSE grown
             ELSE acc
        /\ shimmerHpfState =
             IF currentMode = SHIMMER
             THEN st + ((x - st) * 1200 + 32768) \div 65536
             ELSE st

\* SATURATION mode has been entered again after the three other modes: the
\* accumulator goes on from the value it had, and the shimmer highpass state
\* is the one SHIMMER mode left
C24_Witness ==
  /\ currentMode = SATURATION
  /\ old.obj.currentMode = CLEAN
  /\ old.obj.saturationAccum > 100
  /\ saturationAccum > 100
  /\ saturationAccum # old.obj.saturationAccum
  /\ shimmerHpfState # 0
  /\ shimmerHpfState = old.obj.shimmerHpfState

\* C27 as stated: from every accumulator state and for every input x in
\* -2047..2047 the saturation returns for -x the negative of what it returns
\* for x.
C27_AsStated ==
  (cycles > 0 /\ currentMode = SATURATION) =>
    \A x \in 0 .. 2047 :
      warmSaturate(-x, old.obj.saturationAccum).out =
        -(warmSaturate(x, old.obj.saturationAccum).out)

\* C28: the saturation accumulator is in [0, 400] after every cycle; in every
\* SATURATION cycle the drive is in [2700, 2750] and the dynamic gain in
\* [1126, 2340].
C28_EnvelopeBounds ==
  /\ 0 <= saturationAccum /\ saturationAccum <= 400
  /\ (cycles > 0 /\ currentMode = SATURATION) =>
       LET drive == warmSaturate(loc.feedbackIn, old.obj.saturationAccum).drive
           dynamicGain == DynamicGain(saturationAccum)
       IN  /\ 2700 <= drive /\ drive <= 2750
           /\ 1126 <= dynamicGain /\ dynamicGain <= 2340

\* the accumulator would have gone above 400 and is 400; the dynamic gain is
\* on its falling side
C28_Witness ==
  /\ currentMode = SATURATION
  /\ (252 * old.obj.saturationAccum + 128) \div 256
       + ((IF loc.feedbackIn < 0 THEN -loc.feedbackIn ELSE loc.feedbackIn) + 128)
           \div 256 > 400
  /\ saturationAccum = 400
  /\ DynamicGain(saturationAccum) = 1715

\* C26 as stated: in SHIMMER mode the pitch modulation is the negative of
\* smoothedDelay * 21782 / 65536 rounded to the nearest integer, a half
\* rounded away from 0.  (smoothedDelay is split into its halves
\* a * 65536 + b, so that the product fits.)
C26_AsStated ==
  (cycles + holds > 0 /\ currentMode = SHIMMER) =>
    LET a == loc.smoothed \div 65536
        b == loc.smoothed % 65536
    IN  loc.pitchModulation = -(a * 21782 + (b * 21782 + 32768) \div 65536)

\* C33 as stated: in SATURATION mode, from every accumulator state a cycle
\* starts from and for every feedback signal x in -2047..2047, the signal that
\* comes out of the saturation and the dynamic gain is no larger in magnitude
\* than x.
C33_AsStated ==
  (cycles > 0 /\ currentMode = SATURATION) =>
    \A x \in -2047 .. 2047 :
      LET w == warmSaturate(x, old.obj.saturationAccum)
          y == (w.out * DynamicGain(w.accum) + 1024) \div 2048
      IN  (IF y < 0 THEN -y ELSE y) <= (IF x < 0 THEN -x ELSE x)

(***************************************************************************)
(* A steady level: the card fed the same level on both audio inputs in     *)
(* every cycle, in CLEAN mode with both knobs at 0 and the freeze gate     *)
(* low.  With the feedback amount at 0 the feedback signal is 0 and the    *)
(* signal fed to the DC blocker is the level.                              *)
(***************************************************************************)
MaxSteadyCycles == 400

SteadyInput(a) == [NoInput EXCEPT !.audioIn1 = a, !.audioIn2 = a]

SteadyCycle ==
  /\ cycles < MaxSteadyCycles
  /\ \E a \in {-400, -100, 100, 164, 400} :
       /\ cycles > 0 => a = inp.audioIn1
       /\ Step(SteadyInput(a))

NextSteady == SteadyCycle

SpecSteady == Init /\ [][NextSteady]_vars

\* the DC blocker has come to rest: the last cycle was fed the same signal as
\* the cycles before it and left hpfState as it was, as every later cycle fed
\* that signal will
AtRest ==
  /\ cycles > 1
  /\ loc.mixedSignal = inp.audioIn1
  /\ hpfState = old.obj.hpfState

\* C29 as stated: fed a constant signal c, the state of the DC blocker comes
\* to equal c and its output to be 0; so where the state has come to rest
\* under c, it is c and the output is 0.
C29_AsStated ==
  AtRest => (hpfState = loc.mixedSignal /\ loc.filteredSignal = 0)

(***************************************************************************)
(* The LEDs: the card fed the mode switch and a feedback knob at either    *)
(* end and either side of its middle, with silent audio.                   *)
(***************************************************************************)
MaxLedCycles == 8

LedInput(sw, y) == [NoInput EXCEPT !.switchDown = sw, !.knobY = y]

LedCycle ==
  /\ cycles < MaxLedCycles
  /\ \E sw \in BOOLEAN, y \in {0, 2048, 2049, 4095} : Step(LedInput(sw, y))

NextLed == LedCycle

SpecLed == Init /\ [][NextLed]_vars

\* C31: in every cycle exactly one of LEDs 2 to 5 is on, that of the mode
\* (2 CLEAN, 3 SATURATION, 4 SHIMMER, 5 LOFI), and LED 1 is on if and only if
\* the feedback amount is greater than 2048.
C31_Indicators ==
  cycles > 0 =>
    /\ Cardinality({i \in 2 .. 5 :
                      <<loc.led2, loc.led3, loc.led4, loc.led5>>[i - 1]}) = 1
    /\ loc.led2 <=> currentMode = CLEAN
    /\ loc.led3 <=> currentMode = SATURATION
    /\ loc.led4 <=> currentMode = SHIMMER
    /\ loc.led5 <=> currentMode = LOFI
    /\ loc.led1 <=> Feedback > 2048

\* in LOFI mode with the feedback amount at 2048: LED 5 alone of the mode
\* LEDs is on, and LED 1 is off
C31_Witness ==
  /\ currentMode = LOFI
  /\ loc.led5 /\ ~loc.led2 /\ ~loc.led3 /\ ~loc.led4
  /\ Feedback = 2048
  /\ ~loc.led1

(***************************************************************************)
(* The resonator card (class ResonatingStrings, src/resonator/main.cpp):   *)
(* its chord mode, fed the switch.  currentMode and lastSwitchDown are     *)
(* assigned by the mode switching of ProcessSample and nowhere else, and   *)
(* the mode switching reads nothing but them and the switch; the strings   *)
(* themselves are left out.                                                *)
(***************************************************************************)
MaxChordCycles == 24

\* mode switching: currentMode after the switch has been read
NextChordMode(mode, switchDown, lastDown) ==
  IF switchDown /\ ~lastDown THEN (mode + 1) % NUM_MODES ELSE mode

\* ResonatingStrings::ProcessSample, fed the switch
ChordCycle ==
  /\ cycles < MaxChordCycles
  /\ \E sw \in BOOLEAN :
       \E m \in {NextChordMode(strings.currentMode, sw, strings.lastSwitchDown)} :
         strings' =
           [currentMode |-> m,
            lastSwitchDown |-> sw,
            ran |-> TRUE,
            switchDown |-> sw,
            modes |-> IF strings.ran /\ sw /\ ~strings.switchDown
                      THEN Append(strings.modes, m)
                      ELSE strings.modes]
  /\ cycles' = cycles + 1
  /\ UNCHANGED <<fields, inp, loc, freezeAge, atEdge, holds, changes, tapLog,
                 past, old>>

NextChord == ChordCycle

SpecChord == Init /\ [][NextChord]_vars

\* C32 as stated: the switch going from not Down to Down moves the chord mode
\* on by one, through eleven modes: the mode after j transitions is the mode
\* after i < j transitions if and only if j - i is a multiple of 11.
C32_AsStated ==
  /\ strings.currentMode = strings.modes[Len(strings.modes)]
  /\ \A i, j \in 1 .. Len(strings.modes) :
       i < j => (strings.modes[j] = strings.modes[i] <=> (j - i) % 11 = 0)

(***************************************************************************)
(* The delay smoothing: the card with silent audio and the delay knob at   *)
(* the bottom, the middle or the top, cycle by cycle and held for          *)
(* stretches long enough for smoothedDelay to come to rest, from below and *)
(* from above.                                                             *)
(***************************************************************************)
MaxSmoothCycles == 3
MaxSmoothHolds == 2

SmoothCycle ==
  /\ cycles < MaxSmoothCycles
  /\ \E k \in {0, 2048, 4095} : Step(TapInput(FALSE, k))

SmoothHold ==
  /\ holds < MaxSmoothHolds
  /\ Hold(inp, {200, 5000})

NextSmooth == SmoothCycle \/ SmoothHold

SpecSmooth == Init /\ [][NextSmooth]_vars

\* C34: a cycle moves smoothedDelay toward the target T of the cycle (in
\* 1/128 samples) and never across it; it leaves smoothedDelay as it was
\* exactly when T - 128 < smoothedDelay <= T + 128, so that under a constant
\* target it comes to rest there after finitely many cycles and stays; and
\* smoothedDelay is within 0 .. 95000 * 128 + 128.  The same holds of a cycle
\* from every value within 400 of the target.
C34_SmoothingConverges ==
  cycles + holds > 0 =>
    LET T == loc.targetDelay * 128
        a == old.obj.smoothedDelay
    IN  /\ a <= T => (a <= smoothedDelay /\ smoothedDelay <= T)
        /\ a >= T => (T <= smoothedDelay /\ smoothedDelay <= a)
        /\ smoothedDelay = a <=> (T - 128 < a /\ a <= T + 128)
        /\ 0 <= smoothedDelay /\ smoothedDelay <= 95000 * 128 + 128
        /\ \A e \in -400 .. 400 :
             LET v == Smooth(T + e, T)
             IN  /\ e <= 0 => (T + e <= v /\ v <= T)
                 /\ e >= 0 => (T <= v /\ v <= T + e)
                 /\ v = T + e <=> (-128 < e /\ e <= 128)

\* the knob was brought down from the top to the bottom, and smoothedDelay has
\* come down to rest 128 above the target of 100 samples
C34_Witness ==
  /\ inp.knobX = 0
  /\ holds >= 2
  /\ loc.targetDelay = 100
  /\ smoothedDelay = 100 * 128 + 128
  /\ old.obj.smoothedDelay = smoothedDelay

(***************************************************************************)
(* No feedback: the card fed a steady full-scale level with the feedback   *)
(* knob at 0 and CV 2 at or below 0, and the mode switch pressed in the    *)
(* first cycles, through all four modes.                                   *)
(***************************************************************************)
MaxDryCycles == 110
MaxDryLeadIn == 6

DryInput(a, sw, c) ==
  [NoInput EXCEPT !.audioIn1 = a, !.audioIn2 = a, !.switchDown = sw, !.cv2 = c]

DryCycle ==
  /\ cycles < MaxDryCycles
  /\ \E a \in {-2048, 2047}, sw \in BOOLEAN, c \in {-2048, 0} :
       /\ cycles > 0 => a = inp.audioIn1 /\ c = inp.cv2
       /\ sw => cycles < MaxDryLeadIn
       /\ Step(DryInput(a, sw, c))

NextDry == DryCycle

SpecDry == Init /\ [][NextDry]_vars

\* C35: in a CLEAN or LOFI cycle with the combined feedback value 0, the
\* feedback signal added to the input is 0 (as it is for every delayed sample
\* in -2047..2047), and what the cycle hands to the store is the input of the
\* cycle at full gain through the DC blocker, clamped.
C35_NoRecirculation ==
  (cycles > 0 /\ loc.combinedFeedback = 0 /\ loc.mode \in {CLEAN, LOFI}) =>
    /\ loc.feedbackSignal = 0
    /\ \A d \in -2047 .. 2047 :
         FeedbackPart(inp, [delayedSampleLeft |-> d]).feedbackIn = 0
    /\ loc.filteredSignal =
         clip(highpass(Shr(loc.audioIn * 4095 + 2048, 12),
                       old.obj.hpfState).out)

\* a LOFI cycle without feedback whose delayed sample is not 0
C35_Witness ==
  /\ cycles > 0
  /\ loc.combinedFeedback = 0
  /\ loc.mode = LOFI
  /\ loc.delayedSampleLeft # 0
  /\ loc.feedbackSignal = 0
  /\ loc.filteredSignal # 0

(***************************************************************************)
(* A tap on the deadline: the card fed taps on Pulse In 1 with silent      *)
(* audio, the tap input low in the held stretches, whose lengths put a     *)
(* tap 2400, 2401 or 237600 cycles after the one before.                   *)
(***************************************************************************)
MaxDeadlineCycles == 7
MaxDeadlineHolds == 3

DeadlineCycle ==
  /\ cycles < MaxDeadlineCycles
  /\ \E p \in BOOLEAN : Step(TapInput(p, 0))

DeadlineHold ==
  /\ holds < MaxDeadlineHolds
  /\ ~inp.pulse1
  /\ Hold(inp, {2398, 2399, 237598})

NextDeadline == DeadlineCycle \/ DeadlineHold

SpecDeadline == Init /\ [][NextDeadline]_vars

\* the last cycle began with tap tempo active and its deadline reached
\* exactly in this cycle
OnDeadline ==
  /\ cycles + holds > 0
  /\ old.obj.tapTempoActive
  /\ old.obj.tapTimeout = old.obj.sampleCounter

\* C36: a rising edge in the cycle in which the deadline is reached, its
\* interval since the rising edge before within 2400..144000, leaves tap tempo
\* active with that interval and the deadline 240000 cycles after this cycle.
C36_TapBeforeTimeout ==
  (/\ OnDeadline
   /\ tapLog.pair
   /\ GeU32(SinceEdge, 2400)
   /\ LeU32(SinceEdge, 144000))
  => (/\ tapTempoActive
      /\ tapInterval = IntOf(SinceEdge)
      /\ tapTimeout = AddU32(Now, U32(240000)))

\* a tap 2400 cycles after a refused one, in the cycle of the deadline of the
\* tap before that, has been taken
C36_Witness ==
  /\ OnDeadline
  /\ tapLog.pair
  /\ SinceEdge = U32(2400)
  /\ tapTempoActive
  /\ tapInterval = 2400
  /\ tapTimeout = AddU32(Now, U32(240000))
  /\ old.obj.tapInterval # 2400

\* C37: after every cycle tapInterval is within 2400..144000 (24000 after
\* construction), and while tap tempo is active the deadline is 0 to 239999
\* cycles ahead of the sample counter, counted modulo 2^32.
C37_TapInvariants ==
  /\ 2400 <= tapInterval /\ tapInterval <= 144000
  /\ cycles + holds = 0 => tapInterval = 24000
  /\ tapTempoActive => LeU32(SubU32(tapTimeout, sampleCounter), 239999)

\* tap tempo active with a tapped interval, the sample counter short of 2^32
\* and the deadline past it
C37_Witness ==
  /\ tapTempoActive
  /\ tapInterval # 24000
  /\ sampleCounter.h >= 32768
  /\ tapTimeout.h < 32768

(***************************************************************************)
(* A long pause: the card fed taps on Pulse In 1 with silent audio, and    *)
(* three idle stretches with the tap input low that add up to a little     *)
(* more than 2^32 cycles (a day at 48 kHz), so that a tap, two cycles      *)
(* before the stretches, and the tap after them are 2^32 + 2399,           *)
(* 2^32 + 2400 or 2^32 + 144000 cycles apart.                              *)
(***************************************************************************)
MaxLapCycles == 4
LapHoldLens == <<{2147000000}, {2147000000}, {969693, 969694, 1111294}>>

LapCycle ==
  /\ cycles < MaxLapCycles
  /\ \E p \in BOOLEAN : Step(TapInput(p, 0))

LapHold ==
  /\ holds < Len(LapHoldLens)
  /\ ~inp.pulse1
  /\ Hold(inp, LapHoldLens[holds + 1])

NextLap == LapCycle \/ LapHold

SpecLap == Init /\ [][NextLap]_vars

\* the times the sample counter has come past the count it had at the rising
\* edge before the last one: the whole 2^32 cycles between that edge and the
\* last cycle
Laps ==
  Era(tapLog.wraps, sampleCounter) - old.taps.edgeEra
    - (IF LtU32(Now, old.taps.edge.at) THEN 1 ELSE 0)

\* C38 as stated: a rising edge is taken as a tap only if the cycles that
\* have gone by since the rising edge before it are within 2400..144000, the
\* whole runs of the sample counter through 2^32 counted in.
C38_AsStated ==
  (tapLog.pair /\ loc.tapAccepted) =>
    /\ Laps = 0
    /\ GeU32(SinceEdge, 2400)
    /\ LeU32(SinceEdge, 144000)

(***************************************************************************)
(* A long freeze: the card with silent audio, the freeze gate raised in    *)
(* one of the first cycles and kept high, cycle by cycle and for held      *)
(* stretches that take the freeze up to and past 96000 cycles, the size    *)
(* of the buffer.                                                          *)
(***************************************************************************)
MaxLoopCycles == 8
MaxLoopLeadIn == 3
MaxLoopHolds == 2

LoopCycle ==
  /\ cycles < MaxLoopCycles
  /\ \E g \in BOOLEAN :
       /\ (g /\ ~inp.pulse2) => cycles < MaxLoopLeadIn
       /\ inp.pulse2 => g
       /\ Step([NoInput EXCEPT !.pulse2 = g])

LoopHold ==
  /\ holds < MaxLoopHolds
  /\ inp.pulse2
  /\ Hold(inp, {95898, 95997, 96098})

NextLoop == LoopCycle \/ LoopHold

SpecLoop == Init /\ [][NextLoop]_vars

\* C39 as stated: in every cycle of a freeze, however long, the cursor the
\* reads start from is the one of frozenDelayTimeL + 1 cycles before; counted
\* from the cycle of the rising gate, where it is frozenWritePos, the cursor of
\* cycle t of the freeze is frozenWritePos + t mod (frozenDelayTimeL + 1),
\* taken modulo the size of the buffer.
C39_AsStated ==
  (cycles > 0 /\ inp.pulse2) =>
    loc.effectiveWriteIndex =
      (frozenWritePos + (freezeAge % (frozenDelayTimeL + 1))) % MAX_DELAY_SIZE

====
